---- MODULE Spec2Model ----
(***************************************************************************)
(* A model of the workflow task engine (TaskEngine.execute and             *)
(* TaskEngine.createListrTask), of the error recovery service              *)
(* (ErrorRecoveryService) and of the release command's pre-flight.         *)
(*                                                                         *)
(* The engine hands its step tree to listr2.  The model follows the run    *)
(* of a listr2 task list as the engine configures it: every task is        *)
(* checked (enabled), then run (skip, the retry loop around the task       *)
(* function, a task function that returns a sub-list runs that list), a    *)
(* list with exitOnError stops queueing tasks at the first task that       *)
(* throws and rejects, a list without it records the failure and goes on.  *)
(***************************************************************************)
EXTENDS Integers, Sequences, FiniteSets, TLC

\* ---------------------------------------------------------------- bounds
\* Number of steps of the caller's step tree.
MaxSteps == 3
\* Largest retry count a step declares.
MaxRetry == 1
\* Number of context fields the steps write.
NumFields == 2
\* Largest number of tasks in a concurrent list.
MaxConcurrent == 2
\* Number of commits made one at a time since the latest tag.
MaxCommits == 3

\* ------------------------------------------------------------ JS values
\* Values are kept as strings: "undefined", "true", "false", "" (the empty
\* string) and "reason" (a non-empty string).
Unset == 0 - 1

\* a ?? d
Coalesce(v, d) == IF v = "undefined" THEN d ELSE v

\* if (v)
Truthy(v) == v \notin {"undefined", "false", ""}

\* An error value: the step whose task threw it, and whether it is an
\* instance of Error (a task may throw any value).
NoErr == [src |-> 0, isError |-> FALSE]

\* The two engine runs of the model: the caller's, and the one that
\* executeRecovery starts.
Runs == {"main", "recovery"}

\* ---------------------------------------------------------- step trees
\* A step tree is the vector of its steps' parents, the steps numbered in
\* document order (0: no parent, a top-level step).
RECURSIVE AncOf(_, _)
AncOf(p, i) == IF p[i] = 0 THEN {} ELSE {p[i]} \cup AncOf(p, p[i])

IsDocumentOrder(p) ==
    \A i \in DOMAIN p :
        /\ p[i] < i
        /\ i > 1 => p[i] \in ({0, i - 1} \cup AncOf(p, i - 1))

Shapes == {p \in [1..MaxSteps -> 0..(MaxSteps - 1)] : IsDocumentOrder(p)}

VARIABLES
    pc,            \* pc[r]: where execute of run r is
    opts,          \* opts[r]: the engine options of run r, defaults applied
    parent,        \* parent[r]: the step tree of run r
    title,         \* title[r][i]: the title of step i of run r
    st,            \* st[r][i]: state of the listr task of step i
    att,           \* att[r][i]: invocations of the running task function
    retry,         \* retry[r][i]: step.retry, as read
    conc,          \* conc[r][i]: step.concurrent of a group, as read
    lst,           \* lst[r][g]: state of the list of group g (0: top level)
    lerr,          \* lerr[r][g]: the error the list of g rejected with
    calls,         \* calls[r]: the step tasks in order of their first invocation
    hist,          \* hist[r]: whether a task threw, whether a list was concurrent
    ctx,           \* the run context: last writer of every field
    enabledEvals,  \* enabledEvals[r]: steps whose enabled was evaluated
    skipEvals,     \* skipEvals[r]: steps whose skip was evaluated
    lastEval,      \* the values the predicates just evaluated yielded
    raised,        \* raised[r]: what execute of run r threw
    recPc,         \* where executeRecovery is
    recArg,        \* the arguments executeRecovery was called with
    recCalls,      \* calls of executeRecovery
    analysis,      \* the ErrorAnalysis of executeRecovery
    cmds,          \* commands run by the recovery step that settled last
    relPc,         \* where the release command is
    relOpts,       \* the options of the release command
    hasChanges,    \* what the pre-flight found: uncommitted changes or not
    repo,          \* what the release command has done to the repository
    stage,         \* the number of pipeline steps started
    exitCode,      \* the status the release command has exited with
    caller,        \* who started the release run: the CLI or a program
    job,           \* the task of the pipeline step that is running
    relCtx,        \* the run context of the release run
    relErr,        \* what the failed pipeline step threw
    started,       \* the stages of the release run, in order of start
    asked,       \* the prompts the release command has issued
    entry,         \* the changelog entry that was generated last
    changelog,     \* the lines of CHANGELOG.md
    releases,      \* the number of entries inserted into CHANGELOG.md
    gitLog,        \* the messages of the commits since the latest tag
    bumped,        \* the version bump that was calculated last
    gitTags,       \* the tags of the repository that are merged into HEAD
    manifest,      \* package.json
    imported,      \* package.json as the module system has loaded it
    answer,        \* what the GitStore method called last has returned
    watch          \* where watchGitHubActions is, and what it has seen

engineVars == <<st, att, retry, conc, lst, lerr, calls, hist,
                enabledEvals, skipEvals>>
recoveryVars == <<recPc, recArg, recCalls, analysis>>
releaseVars == <<relPc, relOpts, hasChanges, repo, stage, exitCode, caller,
                 job, relCtx, relErr, started, asked>>
runVars == <<pc, opts, parent, title, st, att, retry, conc, lst, lerr, calls,
             hist, ctx, enabledEvals, skipEvals, lastEval, raised, recPc,
             recArg, recCalls, analysis, cmds>>
logVars == <<entry, changelog, releases>>
storeVars == <<gitLog, bumped, gitTags, manifest, imported, answer, logVars,
               watch>>
vars == <<runVars, releaseVars, storeVars>>

Nodes(r) == 1..Len(parent[r])
Lists(r) == 0..Len(parent[r])
Children(r, g) == {i \in Nodes(r) : parent[r][i] = g}
Anc(r, i) == AncOf(parent[r], i)
Desc(r, g) == {d \in Nodes(r) : g \in Anc(r, d)}
\* step.subtasks
IsGroup(r, i) == Children(r, i) # {}

Done(s) == s \in {"disabled", "skipped", "completed", "failed"}

FieldOf(i) == ((i - 1) % NumFields) + 1

NoEval == [run |-> "main", step |-> 0, enabled |-> "unevaluated",
           skip |-> "unevaluated"]

\* ------------------------------------------------------------- inputs
\* What a step declares and what its task does are inputs of the run; the
\* model draws them when the engine first reads them.
EnabledInputs == {"undefined", "true", "false"}
SkipInputs == {"undefined", "false", "true", "", "reason"}
RetryInputs == 0..MaxRetry
ConcurrentInputs == {"undefined", "false", "true"}
OptionInputs == {"undefined", "false", "true"}

\* ----------------------------------------------- ErrorRecoveryService
\* The text of an error, as the keyword classes analyzeError finds in the
\* lower-cased message and stack: "lint" (eslint, lint, style), "type"
\* (typescript, tsc, type), "build" (build, compile, bundl), "auth" (401,
\* authentication, unauthorized, token), "dep" (module, package,
\* dependency, import).
Keywords == {"lint", "type", "build", "auth", "dep"}
\* The texts of the errors handed to executeRecovery: by the engine (the
\* model's workflow tasks throw errors with no keyword in their text, or
\* with a build keyword), and by a direct caller (any text).
TaskMessages == {{}, {"build"}}
DirectMessages == SUBSET Keywords

NoAnalysis == [type |-> "none", fixable |-> FALSE]

\* Variant: an analysis that tests for a build error first.
AnalyzeErrorBuildFirst(m) ==
    IF "build" \in m THEN [type |-> "build", fixable |-> TRUE]
    ELSE IF "lint" \in m THEN [type |-> "linting", fixable |-> TRUE]
    ELSE IF "type" \in m THEN [type |-> "typescript", fixable |-> FALSE]
    ELSE IF "auth" \in m THEN [type |-> "authentication", fixable |-> FALSE]
    ELSE IF "dep" \in m THEN [type |-> "dependency", fixable |-> TRUE]
    ELSE [type |-> "unknown", fixable |-> FALSE]

\* analyzeError(error)
AnalyzeError(m) ==
    IF "lint" \in m THEN [type |-> "linting", fixable |-> TRUE]
    ELSE IF "type" \in m THEN [type |-> "typescript", fixable |-> FALSE]
    ELSE IF "build" \in m THEN [type |-> "build", fixable |-> TRUE]
    ELSE IF "auth" \in m THEN [type |-> "authentication", fixable |-> FALSE]
    ELSE IF "dep" \in m THEN [type |-> "dependency", fixable |-> TRUE]
    ELSE [type |-> "unknown", fixable |-> FALSE]

\* createLintingRecoverySteps, createBuildRecoverySteps,
\* createDependencyRecoverySteps and the advisory steps: the titles
TypeSteps(type) ==
    CASE type = "linting" ->
           <<"Run lint:fix", "Verify linting", "Commit lint fixes">>
      [] type = "build" ->
           <<"Clean build directory", "Reinstall dependencies",
             "Rebuild project">>
      [] type = "dependency" ->
           <<"Update dependencies", "Install missing dependencies">>
      [] type = "typescript" -> <<"TypeScript Error Advisory">>
      [] type = "authentication" -> <<"Authentication Error Advisory">>
      [] OTHER -> <<"Unknown Error Advisory">>

\* createRecoveryWorkflow(analysis, error): the titles of its steps
CreateRecoveryWorkflow(a) ==
    <<"Error Analysis">> \o TypeSteps(a.type) \o <<"Recovery Verification">>

\* One execa call: the command and whether it succeeded.
Ran(c, ok) == [cmd |-> c, ok |-> ok]
\* try { await execa(c) } catch { }: both outcomes
Try(c) == {<<Ran(c, TRUE)>>, <<Ran(c, FALSE)>>}

\* Variant: a verification that runs its checks after every recovery.
RecoveryTaskVerifiesAlways(t, a) ==
    CASE t = "Run lint:fix" ->
           {<<Ran("bun run lint:fix", TRUE)>>}
           \cup {<<Ran("bun run lint:fix", FALSE)>> \o s :
                    s \in Try("npm run lint:fix")}
      [] t = "Verify linting" -> Try("bun run lint")
      [] t = "Commit lint fixes" ->
           {<<Ran("git status --porcelain", FALSE)>>,
            <<Ran("git status --porcelain", TRUE)>>,
            <<Ran("git status --porcelain", TRUE), Ran("git add .", FALSE)>>}
           \cup {<<Ran("git status --porcelain", TRUE),
                   Ran("git add .", TRUE)>> \o s : s \in Try("git commit")}
      [] t = "Clean build directory" -> Try("bun run clean")
      [] t = "Reinstall dependencies" ->
           {<<Ran("rm -rf node_modules", FALSE)>>}
           \cup {<<Ran("rm -rf node_modules", TRUE)>> \o s :
                    s \in Try("bun install")}
      [] t = "Rebuild project" -> Try("bun run build")
      [] t = "Update dependencies" -> Try("bun update")
      [] t = "Install missing dependencies" -> Try("bun install")
      [] t = "Recovery Verification" ->
           {s1 \o s2 : s1 \in Try("bun run lint"),
                       s2 \in Try("bun run typecheck")}
      [] OTHER -> {<<>>}

\* The commands the task of a recovery step runs, for every outcome of
\* every command; each task catches the failures of its commands.
RecoveryTask(t, a) ==
    CASE t = "Run lint:fix" ->
           {<<Ran("bun run lint:fix", TRUE)>>}
           \cup {<<Ran("bun run lint:fix", FALSE)>> \o s :
                    s \in Try("npm run lint:fix")}
      [] t = "Verify linting" -> Try("bun run lint")
      [] t = "Commit lint fixes" ->
           {<<Ran("git status --porcelain", FALSE)>>,
            <<Ran("git status --porcelain", TRUE)>>,
            <<Ran("git status --porcelain", TRUE), Ran("git add .", FALSE)>>}
           \cup {<<Ran("git status --porcelain", TRUE),
                   Ran("git add .", TRUE)>> \o s : s \in Try("git commit")}
      [] t = "Clean build directory" -> Try("bun run clean")
      [] t = "Reinstall dependencies" ->
           {<<Ran("rm -rf node_modules", FALSE)>>}
           \cup {<<Ran("rm -rf node_modules", TRUE)>> \o s :
                    s \in Try("bun install")}
      [] t = "Rebuild project" -> Try("bun run build")
      [] t = "Update dependencies" -> Try("bun update")
      [] t = "Install missing dependencies" -> Try("bun install")
      [] t = "Recovery Verification" ->
           IF a.fixable
           THEN {s1 \o s2 : s1 \in Try("bun run lint"),
                            s2 \in Try("bun run typecheck")}
           ELSE {<<>>}
      [] OTHER -> {<<>>}

\* --------------------------------------------- TaskEngine, createListrTask
\* concurrent: options.concurrent ?? false, exitOnError: options.exitOnError
\* ?? true
EngineOptions(o) ==
    [concurrent  |-> Truthy(Coalesce(o.concurrent, "false")),
     exitOnError |-> Truthy(Coalesce(o.exitOnError, "true")),
     autoRecovery |-> "unread"]

\* Variant: a task that is run whatever enabled yields.
StepEnabledAlways(e) == TRUE

\* enabled: step.enabled, which listr2 reads as (enabled ?? true)
StepEnabled(e) == Truthy(Coalesce(e, "true"))

\* Variant: a task skipped by the value true only, not by a reason.
StepSkippedByTrueOnly(s) == s = "true"

\* skip: step.skip, of which listr2 takes the truth value
StepSkipped(s) == Truthy(s)

\* Variant: retry as the total number of attempts.
RetryCountTotal(rt) == IF rt > 0 THEN rt ELSE 1

\* retry: step.retry, listr2's number of attempts
RetryCount(rt) == IF rt > 0 THEN rt + 1 ELSE 1

\* concurrent: step.concurrent ?? false
GroupConcurrent(c) == Coalesce(c, "false")

\* Whether the list that holds the children of g runs them concurrently.
ListConcurrent(r, g) ==
    IF g = 0 THEN opts[r].concurrent ELSE conc[r][g] = "true"

\* A step that an enclosing group's retry can run again.
Reincarnable(r, i) == \E a \in Anc(r, i) : retry[r][a] > 0

\* Variant: a list that goes on with its next task after it has rejected.
CanStartAfterReject(r, i) ==
    \A j \in {k \in DOMAIN parent[r] : parent[r][k] = parent[r][i]} :
        j < i => st[r][j] \in {"disabled", "skipped", "completed", "failed"}

\* Variant: a list that starts its tasks in any order.
CanStartAnyOrder(r, i) == lst[r][parent[r][i]] \in {"live", "rejected"}

\* listr2 starts the tasks of a list one after the other, or all at once in
\* a concurrent list; tasks a concurrent list has started are not stopped
\* when the list rejects.
CanStart(r, i) ==
    LET g == parent[r][i] IN
      IF ListConcurrent(r, g)
      THEN lst[r][g] \in {"live", "rejected"}
      ELSE /\ lst[r][g] = "live"
           /\ \A j \in Children(r, g) : j < i => Done(st[r][j])

EnabledChoices(r, i) == IF r = "main" THEN EnabledInputs ELSE {"undefined"}
SkipChoices(r, i) == IF r = "main" THEN SkipInputs ELSE {"undefined"}
\* The model's trees declare a retry in sequential lists only, and keep a
\* group that is run again, or that lies in one, sequential.
RetryChoices(r, i) ==
    IF retry[r][i] # Unset THEN {retry[r][i]}
    ELSE IF r = "main" /\ ~ListConcurrent(r, parent[r][i]) THEN RetryInputs
    ELSE {0}
ConcurrentChoices(r, i, rt) ==
    IF ~IsGroup(r, i) THEN {"undefined"}
    ELSE IF rt > 0 \/ Reincarnable(r, i)
            \/ Cardinality(Children(r, i)) > MaxConcurrent
         THEN {"undefined", "false"}
    ELSE ConcurrentInputs

\* task: (ctx, task) => ...: the task function of step i is invoked; for a
\* group it returns task.newListr(subtasks), a new list of new tasks.
Invoke(r, i, rt, c) ==
    LET D == Desc(r, i) IN
    /\ st' = [st EXCEPT ![r] = [j \in Nodes(r) |->
                 IF j = i THEN "running"
                 ELSE IF j \in D THEN "waiting" ELSE st[r][j]]]
    /\ att' = [att EXCEPT ![r] = [j \in Nodes(r) |->
                 IF j = i THEN att[r][i] + 1
                 ELSE IF j \in D THEN 0 ELSE att[r][j]]]
    /\ retry' = [retry EXCEPT ![r][i] = rt]
    /\ conc' = [conc EXCEPT ![r] = [j \in Nodes(r) |->
                 IF j = i /\ IsGroup(r, i) THEN GroupConcurrent(c)
                 ELSE IF j \in D THEN "unset" ELSE conc[r][j]]]
    /\ lst' = [lst EXCEPT ![r] = [g \in Lists(r) |->
                 IF g = i /\ IsGroup(r, i) THEN "live"
                 ELSE IF g \in D THEN "idle" ELSE lst[r][g]]]
    /\ lerr' = [lerr EXCEPT ![r] = [g \in Lists(r) |->
                 IF g = i \/ g \in D THEN NoErr ELSE lerr[r][g]]]
    /\ calls' = [calls EXCEPT ![r] =
                 IF IsGroup(r, i) THEN SelectSeq(@, LAMBDA j : j \notin D)
                 ELSE IF att[r][i] > 0 THEN @ ELSE Append(@, i)]
    /\ enabledEvals' = [enabledEvals EXCEPT ![r] = (@ \cup {i}) \ D]
    /\ skipEvals' = [skipEvals EXCEPT ![r] = (@ \cup {i}) \ D]

\* listr2 checks a task (enabled) and runs it: skip, then the task function
\* under the retry loop.
StartStep(r, i) ==
    /\ UNCHANGED <<releaseVars, storeVars>>
    /\ pc[r] = "running"
    /\ i \in Nodes(r)
    /\ st[r][i] = "waiting"
    /\ CanStart(r, i)
    /\ \E e \in EnabledChoices(r, i) :
         IF ~StepEnabled(e)
         THEN /\ st' = [st EXCEPT ![r][i] = "disabled"]
              /\ enabledEvals' = [enabledEvals EXCEPT ![r] = @ \cup {i}]
              /\ lastEval' = [run |-> r, step |-> i, enabled |-> e,
                              skip |-> "unevaluated"]
              /\ UNCHANGED <<att, retry, conc, lst, lerr, calls, hist,
                             skipEvals>>
         ELSE \E s \in SkipChoices(r, i) :
              /\ lastEval' = [run |-> r, step |-> i, enabled |-> e,
                              skip |-> s]
              /\ IF StepSkipped(s)
                 THEN /\ st' = [st EXCEPT ![r][i] = "skipped"]
                      /\ enabledEvals' =
                             [enabledEvals EXCEPT ![r] = @ \cup {i}]
                      /\ skipEvals' = [skipEvals EXCEPT ![r] = @ \cup {i}]
                      /\ UNCHANGED <<att, retry, conc, lst, lerr, calls,
                                     hist>>
                 ELSE \E rt \in RetryChoices(r, i) :
                      \E c \in ConcurrentChoices(r, i, rt) :
                        /\ Invoke(r, i, rt, c)
                        /\ hist' = [hist EXCEPT ![r].conc =
                                      @ \/ GroupConcurrent(c) = "true"]
    /\ UNCHANGED <<pc, opts, parent, title, ctx, raised, recoveryVars, cmds>>

\* A task function has returned (for a group: its list has resolved).
Complete(r, i) ==
    /\ st' = [st EXCEPT ![r][i] = "completed"]
    /\ att' = [att EXCEPT ![r][i] = 0]
    /\ retry' = [retry EXCEPT ![r][i] =
                   IF Reincarnable(r, i) THEN @ ELSE Unset]
    /\ conc' = [conc EXCEPT ![r][i] = "unset"]
    /\ lst' = [lst EXCEPT ![r][i] = IF IsGroup(r, i) THEN "done" ELSE @]
    /\ UNCHANGED <<lerr, calls, enabledEvals, skipEvals>>

\* A task function has thrown e (for a group: its list has rejected with
\* e).  listr2 invokes it again while attempts are left; after the last
\* one the task has failed, and a list with exitOnError rejects with e.
Fail(r, i, e) ==
    IF att[r][i] < RetryCount(retry[r][i])
    THEN Invoke(r, i, retry[r][i], conc[r][i])
    ELSE LET g == parent[r][i] IN
         /\ st' = [st EXCEPT ![r][i] = "failed"]
         /\ att' = [att EXCEPT ![r][i] = 0]
         /\ retry' = [retry EXCEPT ![r][i] =
                        IF Reincarnable(r, i) THEN @ ELSE Unset]
         /\ IF opts[r].exitOnError /\ lst[r][g] = "live"
            THEN /\ lst' = [lst EXCEPT ![r][g] = "rejected"]
                 /\ lerr' = [lerr EXCEPT ![r][g] = e]
            ELSE UNCHANGED <<lst, lerr>>
         /\ UNCHANGED <<conc, calls, enabledEvals, skipEvals>>

\* Variant: a task that is handed a copy of the context.
ContextWriteToCopy(cx, i) == cx

\* Variant: a context field that keeps the value written first.
ContextWriteOnce(cx, i) ==
    IF cx[FieldOf(i)] = 0 THEN [cx EXCEPT ![FieldOf(i)] = i] ELSE cx

\* step.task(ctx, helpers): the task of step i writes its field of the
\* context object of the run, the one object listr2 hands to every task.
ContextWrite(cx, i) == [cx EXCEPT ![FieldOf(i)] = i]

\* Variant: a list that resolves with the first task that has ended.
ListResolvedByFirst(r, g) == \E j \in Children(r, g) : Done(st[r][j])

\* A list resolves when all its tasks have ended.
ListResolved(r, g) == \A j \in Children(r, g) : Done(st[r][j])

\* What the task of a leaf step does: it writes its context field, then
\* returns, throws an Error or throws another value.
TaskOutcomes(r, i) ==
    IF r = "main" THEN {"ok", "throwError", "throwValue"} ELSE {"ok"}
\* The commands it runs on the way.
TaskRuns(r, i) ==
    IF r = "main" THEN {<<>>} ELSE RecoveryTask(title[r][i], analysis)

\* if (step.task) return await step.task(ctx, helpers)
SettleTask(r, i) ==
    /\ UNCHANGED <<releaseVars, storeVars>>
    /\ pc[r] = "running"
    /\ i \in Nodes(r)
    /\ ~IsGroup(r, i)
    /\ st[r][i] = "running"
    /\ \E o \in TaskOutcomes(r, i) :
         /\ IF o = "ok"
            THEN Complete(r, i) /\ UNCHANGED hist
            ELSE /\ Fail(r, i, [src |-> i, isError |-> (o = "throwError")])
                 /\ hist' = [hist EXCEPT ![r].threw = TRUE]
    /\ \E s \in TaskRuns(r, i) : cmds' = s
    /\ ctx' = IF r = "main" THEN ContextWrite(ctx, i) ELSE ctx
    /\ lastEval' = NoEval
    /\ UNCHANGED <<pc, opts, parent, title, raised, recoveryVars>>

\* The sub-list of a group has run all its tasks: it resolves.
GroupSettle(r, g) ==
    /\ UNCHANGED <<releaseVars, storeVars>>
    /\ pc[r] = "running"
    /\ g \in Nodes(r)
    /\ IsGroup(r, g)
    /\ st[r][g] = "running"
    /\ lst[r][g] = "live"
    /\ ListResolved(r, g)
    /\ Complete(r, g)
    /\ lastEval' = NoEval
    /\ UNCHANGED <<pc, opts, parent, title, hist, ctx, raised,
                   recoveryVars, cmds>>

\* The sub-list of a group has rejected: the group's task function throws.
GroupReject(r, g) ==
    /\ UNCHANGED <<releaseVars, storeVars>>
    /\ pc[r] = "running"
    /\ g \in Nodes(r)
    /\ IsGroup(r, g)
    /\ st[r][g] = "running"
    /\ lst[r][g] = "rejected"
    /\ Fail(r, g, lerr[r][g])
    /\ lastEval' = NoEval
    /\ UNCHANGED <<pc, opts, parent, title, hist, ctx, raised,
                   recoveryVars, cmds>>

\* execute(steps, context): new Listr(tasks, {...}) and listr.run()
Execute ==
    /\ UNCHANGED <<releaseVars, storeVars>>
    /\ pc["main"] = "idle"
    /\ recPc = "idle"
    /\ \E o \in [concurrent : OptionInputs, exitOnError : OptionInputs] :
         /\ EngineOptions(o).concurrent =>
                Cardinality(Children("main", 0)) <= MaxConcurrent
         /\ opts' = [opts EXCEPT !["main"] = EngineOptions(o)]
    /\ pc' = [pc EXCEPT !["main"] = "running"]
    /\ lst' = [lst EXCEPT !["main"][0] = "live"]
    /\ lastEval' = NoEval
    /\ UNCHANGED <<parent, title, st, att, retry, conc, lerr, calls, hist,
                   ctx, enabledEvals, skipEvals, raised, recoveryVars, cmds>>

\* const result = await listr.run(); return result
Return(r) ==
    /\ UNCHANGED <<releaseVars, storeVars>>
    /\ pc[r] = "running"
    /\ lst[r][0] = "live"
    /\ ListResolved(r, 0)
    /\ pc' = [pc EXCEPT ![r] = "returned"]
    /\ lst' = [lst EXCEPT ![r][0] = "done"]
    /\ lastEval' = NoEval
    /\ UNCHANGED <<opts, parent, title, st, att, retry, conc, lerr, calls,
                   hist, ctx, enabledEvals, skipEvals, raised, recoveryVars,
                   cmds>>

\* Variant: a recovery that has to be asked for.
AutoRecoveryOptIn(a) == a = "true"

\* if (this.options.autoRecovery !== false)
AutoRecovery(a) == a # "false"

\* const enhancedError = new Error(error.message); enhancedError.name =
\* 'WorkflowExecutionError': the message is that of the error of step
\* e.src.
EnhancedError(e) ==
    [src |-> e.src, isError |-> TRUE, name |-> "WorkflowExecutionError",
     hasContext |-> FALSE]
\* throw error: the value as the task threw it
SameError(e) ==
    [src |-> e.src, isError |-> e.isError, name |-> "thrown",
     hasContext |-> FALSE]
NoRaise == [src |-> 0, isError |-> FALSE, name |-> "none",
            hasContext |-> FALSE]

\* catch (error) of execute: listr.run() has rejected.  An Error starts the
\* recovery unless autoRecovery is false; any other value is thrown on as
\* it is.  (this.options.autoRecovery is read here only, so the model draws
\* it here.  The run that executeRecovery starts cannot reject; the model
\* does not follow a recovery started from it.)
Catch(r) ==
    /\ UNCHANGED <<releaseVars, storeVars>>
    /\ pc[r] = "running"
    /\ lst[r][0] = "rejected"
    /\ \E a \in OptionInputs :
       LET e == lerr[r][0] IN
         /\ opts' = [opts EXCEPT ![r].autoRecovery = a]
         /\ IF e.isError /\ AutoRecovery(a) /\ r = "main"
            THEN /\ pc' = [pc EXCEPT ![r] = "recovering"]
                 /\ recPc' = "called"
                 /\ recArg' = [err |-> e, hasContext |-> TRUE,
                               hasMessage |-> TRUE, by |-> "engine",
                               text |-> {}]
                 /\ recCalls' = recCalls + 1
                 /\ UNCHANGED raised
            ELSE /\ pc' = [pc EXCEPT ![r] = "threw"]
                 /\ raised' = [raised EXCEPT ![r] =
                        IF e.isError THEN EnhancedError(e) ELSE SameError(e)]
                 /\ UNCHANGED <<recPc, recArg, recCalls>>
    /\ lastEval' = NoEval
    /\ UNCHANGED <<parent, title, engineVars, ctx, analysis, cmds>>

\* A caller other than the engine calls executeRecovery(error): with an
\* Error, or with a value that has no message.
DirectRecovery ==
    /\ UNCHANGED <<releaseVars, storeVars>>
    /\ pc["main"] = "idle"
    /\ recPc = "idle"
    /\ \E ok \in BOOLEAN :
         recArg' = [err |-> [src |-> 0, isError |-> ok],
                    hasContext |-> FALSE, hasMessage |-> ok, text |-> {},
                    by |-> "direct"]
    /\ recPc' = "called"
    /\ recCalls' = recCalls + 1
    /\ lastEval' = NoEval
    /\ UNCHANGED <<pc, opts, parent, title, engineVars, ctx, raised,
                   analysis, cmds>>

\* Variant: a catch block that throws the recovery error on.
RecoveryErrorRaised(x) == "raised"

\* catch (recoveryError) of executeRecovery: the error is printed with
\* "Automated recovery failed", and executeRecovery returns.
RecoveryError(x) == "reported"

\* Variant: a recovery engine with the default options.
RecoveryEngineDefaults ==
    [concurrent |-> "undefined", exitOnError |-> "undefined"]

\* createTaskEngine({ concurrent: false, exitOnError: false, ... }): the
\* engine of the recovery run keeps autoRecovery at its default.
RecoveryEngineOptions == [concurrent |-> "false", exitOnError |-> "false"]

\* executeRecovery, the try block up to the engine run: analyzeError (which
\* throws on a value without a message: the catch block reports it),
\* createRecoveryWorkflow, createTaskEngine({concurrent: false, exitOnError:
\* false}) and taskEngine.execute(recoverySteps, context || {}).
RecoveryBegin ==
    /\ UNCHANGED <<releaseVars, storeVars>>
    /\ recPc = "called"
    /\ IF ~recArg.hasMessage
       THEN /\ recPc' = RecoveryError(recArg.err)
            /\ UNCHANGED <<pc, opts, parent, title, engineVars, analysis,
                           recArg>>
       ELSE \E m \in (IF recArg.by = "direct" THEN DirectMessages
                      ELSE TaskMessages) :
            LET a == AnalyzeError(m)
                t == CreateRecoveryWorkflow(a)
                N == 1..Len(t)
                R == "recovery"
            IN
            /\ analysis' = a
            /\ recArg' = [recArg EXCEPT !.text = m]
            /\ recPc' = "running"
            /\ title' = [title EXCEPT ![R] = t]
            /\ parent' = [parent EXCEPT ![R] = [i \in N |-> 0]]
            /\ opts' = [opts EXCEPT ![R] =
                   EngineOptions(RecoveryEngineOptions)]
            /\ pc' = [pc EXCEPT ![R] = "running"]
            /\ st' = [st EXCEPT ![R] = [i \in N |-> "waiting"]]
            /\ att' = [att EXCEPT ![R] = [i \in N |-> 0]]
            /\ retry' = [retry EXCEPT ![R] = [i \in N |-> Unset]]
            /\ conc' = [conc EXCEPT ![R] = [i \in N |-> "unset"]]
            /\ lst' = [lst EXCEPT ![R] =
                   [g \in 0..Len(t) |-> IF g = 0 THEN "live" ELSE "idle"]]
            /\ lerr' = [lerr EXCEPT ![R] = [g \in 0..Len(t) |-> NoErr]]
            /\ UNCHANGED <<calls, hist, enabledEvals, skipEvals>>
    /\ lastEval' = NoEval
    /\ UNCHANGED <<ctx, raised, recCalls, cmds>>

\* executeRecovery returns: the engine run has returned, or it has thrown
\* and the catch block has reported it.
RecoveryEnd ==
    /\ UNCHANGED <<releaseVars, storeVars>>
    /\ recPc = "running"
    /\ pc["recovery"] \in {"returned", "threw"}
    /\ recPc' = IF pc["recovery"] = "returned" THEN "returned"
                ELSE RecoveryError(raised["recovery"])
    /\ lastEval' = NoEval
    /\ UNCHANGED <<pc, opts, parent, title, engineVars, ctx, raised, recArg,
                   recCalls, analysis, cmds>>

\* After await executeRecovery(error, context): throw enhancedError
Rethrow ==
    /\ UNCHANGED <<releaseVars, storeVars>>
    /\ pc["main"] = "recovering"
    /\ recPc \in {"returned", "reported"}
    /\ pc' = [pc EXCEPT !["main"] = "threw"]
    /\ raised' = [raised EXCEPT !["main"] = EnhancedError(lerr["main"][0])]
    /\ lastEval' = NoEval
    /\ UNCHANGED <<opts, parent, title, engineVars, ctx, recoveryVars, cmds>>

\* ------------------------------------------------- the release command
\* Variant: a pipeline that publishes the release before it builds.
ReleaseStepsPublishFirst ==
    <<"Auto-fix linting issues", "Type checking", "Running tests",
      "Git repository analysis", "Version calculation",
      "Deployment configuration", "Update package.json version",
      "Generate changelog", "Commit release changes", "Create git tag",
      "Push to remote", "Create GitHub release", "Build project",
      "Deploy to Cloudflare">>

\* Variant: a pipeline that writes the manifest before it calculates the
\* version.
ReleaseStepsManifestFirst ==
    <<"Auto-fix linting issues", "Type checking", "Running tests",
      "Git repository analysis", "Update package.json version",
      "Version calculation", "Deployment configuration",
      "Generate changelog", "Commit release changes", "Create git tag",
      "Push to remote", "Build project", "Deploy to Cloudflare",
      "Create GitHub release">>

\* Variant: a release execution that tags before it commits.
ReleaseStepsTagFirst ==
    <<"Auto-fix linting issues", "Type checking", "Running tests",
      "Git repository analysis", "Version calculation",
      "Deployment configuration", "Update package.json version",
      "Generate changelog", "Create git tag", "Commit release changes",
      "Push to remote", "Build project", "Deploy to Cloudflare",
      "Create GitHub release">>

\* A release run: createReleaseWorkflow(options), whose pre-flight deals
\* with uncommitted changes before it returns the steps, then
\* taskEngine.execute(steps) with the default engine options: a sequential
\* list that stops at the first task that throws.  The pipeline is
\* followed as the sequence of the leaf steps of the workflow, with what
\* each does to the repository and to the context.  The release command of
\* the CLI goes on, after execute, with its two offers: to watch the
\* publishing workflow and to deploy to Cloudflare.
ReleaseSteps ==
    <<"Auto-fix linting issues", "Type checking", "Running tests",
      "Git repository analysis", "Version calculation",
      "Deployment configuration", "Update package.json version",
      "Generate changelog", "Commit release changes", "Create git tag",
      "Push to remote", "Build project", "Deploy to Cloudflare",
      "Create GitHub release">>

\* The top-level step a leaf step belongs to.
ReleaseStage(t) ==
    IF t \in {"Auto-fix linting issues", "Type checking", "Running tests"}
    THEN "Quality Gates"
    ELSE IF t \in {"Update package.json version", "Generate changelog",
                   "Commit release changes", "Create git tag",
                   "Push to remote"}
    THEN "Release execution"
    ELSE t

\* Variant: a deployment and a publication that throw what their command
\* throws.
NeverThrowsLintOnly == {"Auto-fix linting issues", "Deployment configuration"}

\* The steps whose task catches every error of its commands.
NeverThrows ==
    {"Auto-fix linting issues", "Deployment configuration",
     "Deploy to Cloudflare", "Create GitHub release"}

\* ReleaseOptions.  A flag of the command line is set or absent; a
\* program that calls createReleaseWorkflow can also pass false.
ReleaseOptionInputs ==
    [force : {"undefined", "true"}, nonInteractive : {"undefined", "true"},
     skipLint : {"undefined", "true"}, skipTests : {"undefined", "true"},
     dryRun : {"undefined", "true"},
     skipCloudflare : {"undefined", "true", "false"},
     type : {"undefined", "patch", "minor", "major"}]

\* The options are inputs of the run: the model draws an option when the
\* run first reads it.
Unread ==
    [force |-> "unread", nonInteractive |-> "unread", skipLint |-> "unread",
     skipTests |-> "unread", dryRun |-> "unread",
     skipCloudflare |-> "unread", type |-> "unread"]

\* The values option o can have when caller c starts the run: the command
\* line has --skip-cloudflare, and no flag that sets it to false.
OptionValues(c, o) ==
    {v \in {x[o] : x \in ReleaseOptionInputs} :
        ~(c = "cli" /\ o = "skipCloudflare" /\ v = "false")}

\* Option o reads as v.
Reads(o, v) ==
    IF relOpts[o] = "unread" THEN v \in OptionValues(caller, o)
    ELSE v = relOpts[o]

\* if (options.skipCloudflare === undefined) options.skipCloudflare = true
DefaultOptions(o) ==
    [o EXCEPT !.skipCloudflare = Coalesce(o.skipCloudflare, "true")]

\* skip: () => options.skipLint || false, and the like: the option read
SkipOption(t) ==
    CASE t = "Auto-fix linting issues" -> "skipLint"
      [] t = "Running tests" -> "skipTests"
      [] t = "Deploy to Cloudflare" -> "skipCloudflare"
      [] OTHER -> "none"

ReleaseSkip(t, o) ==
    IF SkipOption(t) = "none" THEN FALSE ELSE Truthy(o[SkipOption(t)])

\* A version string: X.Y.Z, X.Y.Z with a prerelease tag, or a string that
\* is no semantic version.
Version(x, y, z, k) == [major |-> x, minor |-> y, patch |-> z, kind |-> k]
\* ctx.version is not set; next: '' ("Will be calculated next")
NoVersion == Version(0, 0, 0, "unset")
EmptyVersion == Version(0, 0, 0, "empty")

\* The repository and the services, as the release run has changed them:
\* the version written to the manifest, the changelog entries written, the
\* commits and tags made, what was pushed, and the runs of wrangler deploy
\* and of gh release create.
Untouched ==
    [manifest |-> NoVersion, changelog |-> 0, commits |-> <<>>,
     stash |-> 0, tags |-> <<>>, pushedCommits |-> FALSE,
     pushedTags |-> FALSE, wrangler |-> <<>>, ghRelease |-> <<>>]

ReleaseCommit == "chore: release"
LintFixCommit == "fix: automated lint error fixes"

\* The run context of the release: quality, git and version snapshots and
\* the deployment records (the targets that have one).
NoContext ==
    [lintPassed |-> "unset", testsPassed |-> "unset", git |-> FALSE,
     current |-> NoVersion, next |-> NoVersion, bump |-> "unset",
     commits |-> <<>>, deployments |-> {}]

\* The task that is running, or that ran last: the results of the
\* candidate commands it has tried.
NoJob == [phase |-> "idle", tried |-> <<>>]

NoError == [isError |-> FALSE, step |-> "none"]

\* if (!options.force)
ChecksChanges(o) == ~Truthy(o.force)

\* Variant: a pre-flight that prompts in every mode.
InteractiveAlways(o) == TRUE

\* if (!options.nonInteractive)
Interactive(o) == ~Truthy(o.nonInteractive)

\* Variant: offers that only a dry run leaves out.
OffersUnlessDryRun(o) == ~Truthy(o.dryRun)

\* if (!options.dryRun && !options.nonInteractive): the release command
\* offers the monitoring and the deployment after the pipeline.
Offers(o) == ~Truthy(o.dryRun) /\ ~Truthy(o.nonInteractive)

\* Variant: a run that goes on with the next step after a step has failed.
ThrownOnward(c) == "pipeline"

\* An error leaves createReleaseWorkflow or execute: the release command
\* catches it and exits with status 1; a program that called them itself
\* gets the rejection.
Thrown(c) == IF c = "cli" THEN "exited" ELSE "rejected"
ThrownCode(c, x) == IF c = "cli" THEN 1 ELSE x

\* program.command('release').action(options): the release command of the
\* CLI starts.
ReleaseCommand ==
    /\ relPc = "cli"
    /\ caller' = "cli"
    /\ relPc' = "preflight"
    /\ UNCHANGED <<runVars, storeVars,
                   relOpts, hasChanges, repo, stage, exitCode, job,
                   relCtx, relErr, started, asked>>

\* A program uses the library: createReleaseWorkflow(options), then
\* execute(steps, context) of an engine with the default options, as
\* quickRelease does; its context holds the deployment record of another
\* target already.
LibraryRelease ==
    /\ relPc = "cli"
    /\ caller' = "library"
    /\ relPc' = "preflight"
    /\ relCtx' = [relCtx EXCEPT !.deployments = {"npm"}]
    /\ UNCHANGED <<runVars, storeVars,
                   relOpts, hasChanges, repo, stage, exitCode, job,
                   relErr, started, asked>>

\* The pre-flight of createReleaseWorkflow: skipCloudflare gets its
\* default; unless force is set it asks git for uncommitted changes (an
\* error of git leaves createReleaseWorkflow); with changes it prompts in
\* interactive mode and exits the process with status 1 otherwise.
PreFlight ==
    /\ relPc = "preflight"
    /\ \E sc, f, n \in {"undefined", "true", "false"} :
       \E h \in {"true", "false", "error"} :
         /\ Reads("skipCloudflare", sc)
         /\ Reads("force", f)
         /\ Reads("nonInteractive", n)
         /\ LET o == DefaultOptions([relOpts EXCEPT !.skipCloudflare = sc,
                                                    !.force = f])
                on == [o EXCEPT !.nonInteractive = n]
            IN
            IF ChecksChanges(o)
            THEN /\ hasChanges' = h
                 /\ relOpts' = IF h = "true" THEN on ELSE o
                 /\ relPc' = IF h = "false" THEN "pipeline"
                             ELSE IF h = "error" THEN Thrown(caller)
                             ELSE IF Interactive(on) THEN "choose"
                             ELSE "exited"
                 /\ exitCode' = IF h = "error" THEN ThrownCode(caller, exitCode)
                                ELSE IF h = "true" /\ ~Interactive(on) THEN 1
                                ELSE exitCode
            ELSE /\ relOpts' = o
                 /\ relPc' = "pipeline"
                 /\ UNCHANGED <<hasChanges, exitCode>>
    /\ started' = Append(started, "Pre-flight")
    /\ asked' = IF relPc' = "choose" THEN asked \cup {"action"} ELSE asked
    /\ UNCHANGED <<runVars, storeVars,
                   repo, stage, caller, job, relCtx, relErr>>

\* The prompt 'Choose an action': commit (stage and commit the changed
\* files under the message prompted for), stash (git stash push) or force;
\* a prompt that is cancelled or a git command that fails leaves
\* createReleaseWorkflow with an error.
ChooseAction ==
    /\ relPc = "choose"
    /\ \E a \in {"commit", "stash", "force", "cancel"} :
       \E ok \in BOOLEAN :
         LET threw == a = "cancel" \/ (a # "force" /\ ~ok) IN
         /\ relPc' = IF threw THEN Thrown(caller) ELSE "pipeline"
         /\ exitCode' = IF threw THEN ThrownCode(caller, exitCode)
                        ELSE exitCode
         /\ repo' = IF a = "commit" /\ ok
                    THEN [repo EXCEPT !.commits = Append(@, "operator")]
                    ELSE IF a = "stash" /\ ok
                    THEN [repo EXCEPT !.stash = @ + 1]
                    ELSE repo
         /\ relOpts' = IF a = "force" THEN [relOpts EXCEPT !.force = "true"]
                       ELSE relOpts
         /\ asked' = IF a = "commit" THEN asked \cup {"message"} ELSE asked
    /\ UNCHANGED <<runVars, storeVars,
                   hasChanges, stage, caller, job, relCtx, relErr,
                   started>>

\* ------------------------------------------------ versions and commits
\* Variant: an increment that keeps the lower fields.
SemverIncNoReset(v, b) ==
    IF v.kind \notin {"release", "prerelease"} THEN Version(0, 0, 0, "null")
    ELSE CASE b = "major" -> Version(v.major + 1, v.minor, v.patch, "release")
           [] b = "minor" -> Version(v.major, v.minor + 1, v.patch, "release")
           [] b = "patch" -> Version(v.major, v.minor, v.patch + 1, "release")
           [] OTHER -> Version(0, 0, 0, "null")

\* semver.inc(version, release): null for a string that is no semantic
\* version; a prerelease version is promoted to its own X.Y.Z when the
\* bump asked for is already contained in it.
SemverInc(v, b) ==
    IF v.kind \notin {"release", "prerelease"} THEN Version(0, 0, 0, "null")
    ELSE LET pre == v.kind = "prerelease" IN
      CASE b = "major" ->
             IF pre /\ v.minor = 0 /\ v.patch = 0
             THEN Version(v.major, 0, 0, "release")
             ELSE Version(v.major + 1, 0, 0, "release")
        [] b = "minor" ->
             IF pre /\ v.patch = 0
             THEN Version(v.major, v.minor, 0, "release")
             ELSE Version(v.major, v.minor + 1, 0, "release")
        [] b = "patch" ->
             IF pre THEN Version(v.major, v.minor, v.patch, "release")
             ELSE Version(v.major, v.minor, v.patch + 1, "release")
        [] OTHER -> Version(0, 0, 0, "null")

\* A commit message (the subject line): the leading word, the scope in
\* parentheses ("" when there is none), whether a ! follows, and whether
\* ": " and a text follow, as in "feat(api)!: remove legacy endpoint".
Message(w, s, bang, sep) ==
    [word |-> w, scope |-> s, bang |-> bang, sep |-> sep]

\* parseCommit(commit): message.match(/^(\w+)(?:\(([^)]+)\))?(!)?: (.+)$/)
ParseCommit(m) ==
    IF m.sep /\ m.word # ""
    THEN [type |-> m.word,
          scope |-> IF m.scope = "" THEN "undefined" ELSE m.scope,
          breaking |-> m.bang]
    ELSE [type |-> "undefined", scope |-> "undefined", breaking |-> FALSE]

\* getCommits: log.all.map(commit => this.parseCommit(commit))
ParseLog(log) == [k \in DOMAIN log |-> ParseCommit(log[k])]

\* let versionBump = options.type || 'patch'; if (!options.type) { major
\* for commits.some(c => c.breaking), else minor for commits.some(c =>
\* c.type === 'feat'), else patch }
VersionBump(type, commits) ==
    IF type # "undefined" THEN type
    ELSE IF \E k \in DOMAIN commits : commits[k].breaking THEN "major"
    ELSE IF \E k \in DOMAIN commits : commits[k].type = "feat" THEN "minor"
    ELSE "patch"

\* What git.getCurrentVersion() yields in the runs of the model: the
\* version of a tag, the fallback 0.0.0, a prerelease, and a tag that is no
\* semantic version.
CurrentVersions ==
    {Version(1, 2, 3, "release"), Version(0, 0, 0, "release"),
     Version(1, 0, 0, "prerelease"), Version(1, 2, 3, "invalid")}

\* The commits since the last tag, in the runs of the model.
Histories ==
    {<<>>,
     <<Message("fix", "", FALSE, TRUE)>>,
     <<Message("fix", "", FALSE, TRUE), Message("feat", "", FALSE, TRUE)>>,
     <<Message("feat", "api", TRUE, TRUE), Message("docs", "", FALSE, FALSE)>>}

\* ------------------------------------------------------ command chains
\* The candidate commands of the steps that try one command after the
\* other.
Candidates(t) ==
    CASE t = "Auto-fix linting issues" ->
           <<"bun run lint:fix", "npm run lint:fix", "bunx eslint . --fix",
             "npx eslint . --fix">>
      [] t = "Type checking" ->
           <<"bun run typecheck", "npm run typecheck", "bunx tsc --noEmit">>
      [] t = "Running tests" ->
           <<"bun run test:ci", "bun run test", "bun test",
             "npm run test:ci", "npm run test", "npm test">>
      [] t = "Build project" -> <<"bun run build", "npm run build">>
      [] OTHER -> <<>>

\* What the message of a failed command can contain: "noscript" (script
\* not found, Missing script), "nocommand" (command not found), "notests"
\* (No tests found, no test files), "fail" (fail, Test), "issues" (eslint,
\* error, warning, problem).
Features == {"noscript", "nocommand", "notests", "fail", "issues"}
\* A command succeeds ({"ok"}) or fails with a message.
CommandResults == {{"ok"}} \cup SUBSET Features

\* The branch the catch block of a step takes for a result, by the order
\* of its tests on the message.  The catch blocks of type checking test
\* nothing: for them, whether the command was missing or has run and
\* reported errors.
Classify(t, r) ==
    IF r = {"ok"} THEN "ok"
    ELSE CASE t = "Auto-fix linting issues" ->
                IF "noscript" \in r \/ "nocommand" \in r THEN "missing"
                ELSE IF "issues" \in r THEN "issues"
                ELSE "other"
           [] t = "Running tests" ->
                IF "notests" \in r \/ "noscript" \in r THEN "notests"
                ELSE IF "fail" \in r THEN "fail"
                ELSE "other"
           [] t = "Build project" ->
                IF "noscript" \in r THEN "missing" ELSE "other"
           [] t = "Type checking" ->
                IF "noscript" \in r \/ "nocommand" \in r THEN "missing"
                ELSE "errors"
           [] OTHER -> "failed"

\* Variant: a test step that fails when no candidate has passed.
VerdictNeedsPass(t, tried) ==
    IF tried[Len(tried)] = "ok" THEN "success"
    ELSE IF Len(tried) = Len(Candidates(t)) THEN "throw"
    ELSE "continue"

\* Variant: a build that goes on with the next candidate after any failure.
VerdictTriesAll(t, tried) ==
    IF tried[Len(tried)] = "ok" THEN "success"
    ELSE IF Len(tried) < Len(Candidates(t)) THEN "continue"
    ELSE IF tried[Len(tried)] \in {"missing", "notests"} THEN "success"
    ELSE "throw"

\* Variant: a lint step that throws the error it stored last when no
\* command has worked.
VerdictLintThrows(t, tried) ==
    LET last == tried[Len(tried)]
        full == Len(tried) = Len(Candidates(t))
    IN IF last \in {"ok", "issues"} THEN "success"
       ELSE IF full THEN "throw" ELSE "continue"

\* What a step does after the command that was tried last: it returns
\* ("success"), throws, or tries the next candidate; after the last
\* candidate, by the error it stored last.
Verdict(t, tried) ==
    LET last == tried[Len(tried)]
        full == Len(tried) = Len(Candidates(t))
    IN CASE t = "Auto-fix linting issues" ->
              IF last \in {"ok", "issues"} \/ full THEN "success"
              ELSE "continue"
         [] t = "Type checking" ->
              IF last = "ok" THEN "success"
              ELSE IF full THEN "throw" ELSE "continue"
         [] t = "Running tests" ->
              IF last = "ok" THEN "success"
              ELSE IF last = "fail" THEN "throw"
              ELSE IF ~full THEN "continue"
              ELSE IF last = "notests" THEN "success" ELSE "throw"
         [] t = "Build project" ->
              IF last = "ok" THEN "success"
              ELSE IF last = "other" THEN "throw"
              ELSE IF full THEN "success" ELSE "continue"
         [] OTHER -> "success"

\* Variant: a snapshot that records the tests as passed on every path.
QualityPassed(cx, passed) ==
    [cx EXCEPT !.lintPassed = IF @ = "unset" THEN "true" ELSE @,
               !.testsPassed = "true"]

\* ctx.quality = { lintPassed: ctx.quality?.lintPassed ?? true,
\* testsPassed }
Quality(cx, passed) ==
    [cx EXCEPT !.lintPassed = IF @ = "unset" THEN "true" ELSE @,
               !.testsPassed = passed]

\* The keyword classes analyzeError can find in the Error a step throws.
\* The text of 'TypeScript errors found. Please fix before releasing.' is
\* fixed, and the stack, whose paths can hold eslint, is tested for the
\* linting class; 'Build failed: ' is followed by the output of the
\* command, 'Failed to calculate next version from ' by the current
\* version, and the other messages are those of git and of the commands:
\* they can hold any keyword.
ReleaseMessages(t) ==
    CASE t = "Type checking" -> {{"type"}, {"type", "lint"}}
      [] t = "Build project" -> {m \cup {"build"} : m \in SUBSET Keywords}
      [] OTHER -> SUBSET Keywords

\* Whether the recovery run has committed: git commit of 'Commit lint
\* fixes' has run and succeeded.
Committed(s) == \E k \in DOMAIN s : s[k].cmd = "git commit" /\ s[k].ok

\* The repository after the recovery run for an error of analysis a.
RecoveryRepo(a, rp) ==
    LET t == CreateRecoveryWorkflow(a) IN
    {IF Committed(s) THEN [rp EXCEPT !.commits = Append(@, LintFixCommit)]
     ELSE rp :
        s \in UNION {RecoveryTask(t[k], a) : k \in DOMAIN t}}

\* ---------------------------------------------------------- the pipeline
\* Variant: a deployment step that asks before it deploys.
StepPromptsOnDeploy(t) ==
    IF t = "Deploy to Cloudflare" THEN {"deployment"} ELSE {}

\* The prompts the task function of a step issues: no step of the
\* pipeline calls enquirer.
StepPrompts(t) == {}

\* Whether step k of the pipeline is the first of its top-level step.
OpensStage(k) ==
    k = 1 \/ ReleaseStage(ReleaseSteps[k - 1]) # ReleaseStage(ReleaseSteps[k])
\* Whether it is the last.
ClosesStage(k) ==
    k = Len(ReleaseSteps)
    \/ ReleaseStage(ReleaseSteps[k + 1]) # ReleaseStage(ReleaseSteps[k])

\* The engine comes to the next step of the list: a group's task function
\* is invoked with its first subtask; the step's skip is evaluated, and
\* unless it skips, its task function is invoked.
ReleaseStep ==
    /\ relPc = "pipeline"
    /\ job.phase # "running"
    /\ stage < Len(ReleaseSteps)
    /\ stage' = stage + 1
    /\ LET t == ReleaseSteps[stage + 1]
           group == ReleaseStage(t) # t
       IN
       \E v \in {"undefined", "true", "false"} :
         /\ IF SkipOption(t) = "none" THEN v = "undefined"
            ELSE Reads(SkipOption(t), v)
         /\ LET o == IF SkipOption(t) = "none" THEN relOpts
                     ELSE [relOpts EXCEPT ![SkipOption(t)] = v]
                skipped == ReleaseSkip(t, o)
            IN
            /\ relOpts' = o
            /\ job' = IF skipped THEN NoJob
                      ELSE [phase |-> "running", tried |-> <<>>]
            /\ asked' = IF skipped THEN asked
                        ELSE asked \cup StepPrompts(t)
            /\ started' = IF (group /\ OpensStage(stage + 1))
                             \/ (~group /\ ~skipped)
                          THEN Append(started, ReleaseStage(t))
                          ELSE started
    /\ UNCHANGED <<runVars, storeVars,
                   relPc, hasChanges, repo, exitCode, caller,
                   relCtx, relErr>>

\* The running step tries its next candidate command: await execa(...) in
\* the loop (the nested try blocks, for type checking).
RunCommand ==
    /\ relPc = "pipeline"
    /\ job.phase = "running"
    /\ Candidates(ReleaseSteps[stage]) # <<>>
    /\ \E c \in {Classify(ReleaseSteps[stage], r) : r \in CommandResults} :
         LET t == ReleaseSteps[stage]
             tr == Append(job.tried, c)
             v == Verdict(t, tr)
         IN
         /\ job' = [phase |-> IF v = "continue" THEN "running"
                              ELSE IF v = "success" THEN "done" ELSE "threw",
                    tried |-> tr]
         /\ relCtx' = IF t = "Running tests" /\ v # "continue"
                      THEN Quality(relCtx, IF v = "success" THEN "true"
                                           ELSE "false")
                      ELSE relCtx
         /\ relPc' = IF v = "throw" THEN "failed" ELSE relPc
         /\ relErr' = IF v = "throw" THEN [isError |-> TRUE, step |-> t]
                      ELSE relErr
    /\ UNCHANGED <<runVars, storeVars,
                   relOpts, hasChanges, repo, stage, exitCode,
                   caller, started, asked>>

\* The task of 'Git repository analysis': isGitRepository (throw new
\* Error('Not a Git repository')), the branch, the current version, the
\* repository name and the changes, each of which can fail in git; then
\* ctx.git and ctx.version are set.
RepositoryAnalysis ==
    /\ relPc = "pipeline"
    /\ job.phase = "running"
    /\ ReleaseSteps[stage] = "Git repository analysis"
    /\ \/ \E e \in BOOLEAN :
            /\ relErr' = [isError |-> e, step |-> ReleaseSteps[stage]]
            /\ relPc' = "failed"
            /\ job' = [job EXCEPT !.phase = "threw"]
            /\ UNCHANGED <<relCtx, relOpts>>
       \/ \E v \in CurrentVersions :
          \E ty \in OptionValues(caller, "type") :
            /\ Reads("type", ty)
            /\ relOpts' = [relOpts EXCEPT !.type = ty]
            /\ relCtx' = [relCtx EXCEPT
                            !.git = TRUE, !.commits = <<>>, !.current = v,
                            !.next = EmptyVersion,
                            !.bump = IF ty = "undefined" THEN "patch" ELSE ty]
            /\ job' = [job EXCEPT !.phase = "done"]
            /\ UNCHANGED <<relPc, relErr>>
    /\ UNCHANGED <<runVars, storeVars,
                   hasChanges, repo, stage, exitCode, caller,
                   started, asked>>

\* The task of 'Version calculation': the commits since the last tag (git
\* can fail), the bump, semver.inc; it throws when semver.inc yields null.
VersionCalculation ==
    /\ relPc = "pipeline"
    /\ job.phase = "running"
    /\ ReleaseSteps[stage] = "Version calculation"
    /\ \/ \E e \in BOOLEAN :
            /\ relErr' = [isError |-> e, step |-> ReleaseSteps[stage]]
            /\ relPc' = "failed"
            /\ job' = [job EXCEPT !.phase = "threw"]
            /\ UNCHANGED relCtx
       \/ \E h \in Histories :
            LET commits == ParseLog(h)
                bump == VersionBump(relOpts.type, commits)
                next == SemverInc(relCtx.current, bump)
            IN
            IF next.kind = "null"
            THEN /\ relCtx' = [relCtx EXCEPT !.commits = commits]
                 /\ relErr' = [isError |-> TRUE, step |-> ReleaseSteps[stage]]
                 /\ relPc' = "failed"
                 /\ job' = [job EXCEPT !.phase = "threw"]
            ELSE /\ relCtx' = [relCtx EXCEPT !.commits = commits,
                                             !.next = next, !.bump = bump]
                 /\ job' = [job EXCEPT !.phase = "done"]
                 /\ UNCHANGED <<relPc, relErr>>
    /\ UNCHANGED <<runVars, storeVars,
                   relOpts, hasChanges, repo, stage, exitCode,
                   caller, started, asked>>

\* How the task of a step with no candidate chain can end: it returns
\* ("ok"), it throws, it throws after git.push() and before
\* git.pushTags() have succeeded ("partial"), or it catches the error of
\* its command and returns ("caught").
ReleaseOutcomes(t) ==
    CASE t = "Deployment configuration" -> {"ok"}
      [] t = "Push to remote" -> {"ok", "throw", "partial"}
      [] t \in NeverThrows -> {"ok", "caught"}
      [] OTHER -> {"ok", "throw"}

\* What the task of a release step does to the repository.
ReleaseEffect(t, o, rp, cx) ==
    CASE t = "Update package.json version" /\ o = "ok" ->
           [rp EXCEPT !.manifest = cx.next]
      [] t = "Generate changelog" /\ o = "ok" ->
           [rp EXCEPT !.changelog = @ + 1]
      [] t = "Commit release changes" /\ o = "ok" ->
           [rp EXCEPT !.commits = Append(@, ReleaseCommit)]
      [] t = "Create git tag" /\ o = "ok" ->
           [rp EXCEPT !.tags = Append(@, cx.next)]
      [] t = "Push to remote" /\ o = "ok" ->
           [rp EXCEPT !.pushedCommits = TRUE, !.pushedTags = TRUE]
      [] t = "Push to remote" /\ o = "partial" ->
           [rp EXCEPT !.pushedCommits = TRUE]
      [] t = "Deploy to Cloudflare" ->
           [rp EXCEPT !.wrangler =
               Append(@, IF o = "ok" THEN "deployed" ELSE "failed")]
      [] t = "Create GitHub release" ->
           [rp EXCEPT !.ghRelease =
               Append(@, IF o = "ok" THEN "created" ELSE "failed")]
      [] OTHER -> rp

\* Variant: a deployment record written whatever wrangler deploy did.
ContextEffectAlways(t, o, cx) ==
    IF t = "Deploy to Cloudflare"
    THEN [cx EXCEPT !.deployments = {"cloudflare"}]
    ELSE cx

\* ctx.deployments = { ...ctx.deployments, cloudflare: { environment:
\* 'production' } }, after wrangler deploy has succeeded
ContextEffect(t, o, cx) ==
    IF t = "Deploy to Cloudflare" /\ o = "ok"
    THEN [cx EXCEPT !.deployments = @ \cup {"cloudflare"}]
    ELSE cx

\* The task of a step with no candidate chain runs to its end.
RunTask ==
    /\ relPc = "pipeline"
    /\ job.phase = "running"
    /\ LET t == ReleaseSteps[stage] IN
       /\ Candidates(t) = <<>>
       /\ t \notin {"Git repository analysis", "Version calculation"}
       /\ \E o \in ReleaseOutcomes(t) :
          \E e \in (IF t = "Generate changelog" THEN {TRUE} ELSE BOOLEAN) :
            LET threw == o \in {"throw", "partial"} IN
            /\ repo' = ReleaseEffect(t, o, repo, relCtx)
            /\ relCtx' = ContextEffect(t, o, relCtx)
            /\ job' = [job EXCEPT !.phase = IF threw THEN "threw" ELSE "done"]
            /\ relPc' = IF threw THEN "failed" ELSE relPc
            /\ relErr' = IF threw THEN [isError |-> e, step |-> t]
                         ELSE relErr
    /\ UNCHANGED <<runVars, storeVars,
                   relOpts, hasChanges, stage, exitCode, caller,
                   started, asked>>

\* catch (error) of execute, with the default engine options: for an Error
\* the recovery run, which may commit lint fixes; then the error is thrown
\* to the caller.
ReleaseCatch ==
    /\ relPc = "failed"
    /\ IF relErr.isError /\ AutoRecovery("undefined")
       THEN \E a \in {AnalyzeError(m) : m \in ReleaseMessages(relErr.step)} :
            \E rp \in RecoveryRepo(a, repo) : repo' = rp
       ELSE UNCHANGED repo
    /\ relPc' = Thrown(caller)
    /\ exitCode' = ThrownCode(caller, exitCode)
    /\ UNCHANGED <<runVars, storeVars,
                   relOpts, hasChanges, stage, caller, job, relCtx,
                   relErr, started, asked>>

\* execute has returned the context: the release command prints its
\* summary; a program has its context.
ReleaseDone ==
    /\ relPc = "pipeline"
    /\ job.phase # "running"
    /\ stage = Len(ReleaseSteps)
    /\ relPc' = IF caller = "cli" THEN "summary" ELSE "done"
    /\ UNCHANGED <<runVars, storeVars,
                   relOpts, hasChanges, repo, stage, exitCode,
                   caller, job, relCtx, relErr, started, asked>>

\* ------------------------------------------- after the pipeline (CLI)
\* The release command after the summary: unless dryRun or nonInteractive
\* is set, and when the repository has a workflow that publishes to npm,
\* it asks whether to watch it, and on yes calls watchGitHubActions.  A
\* prompt that is cancelled throws: the command exits with status 1.
MonitoringOffer ==
    /\ relPc = "summary"
    /\ \E d, n \in {"undefined", "true"} :
         /\ Reads("dryRun", d)
         /\ Reads("nonInteractive", n)
         /\ relOpts' = IF Truthy(d) THEN [relOpts EXCEPT !.dryRun = d]
                        ELSE [relOpts EXCEPT !.dryRun = d,
                                             !.nonInteractive = n]
         /\ IF ~Offers(relOpts')
            THEN /\ relPc' = "deployOffer"
                 /\ UNCHANGED <<started, exitCode, asked>>
            ELSE \E hasPublishing \in BOOLEAN :
                 \E reply \in {"yes", "no", "cancel"} :
                   /\ asked' = IF hasPublishing
                                THEN asked \cup {"monitoring"} ELSE asked
                   /\ relPc' = IF ~hasPublishing \/ reply = "no"
                               THEN "deployOffer"
                               ELSE IF reply = "yes" THEN "monitoring"
                               ELSE "exited"
                   /\ exitCode' = IF hasPublishing /\ reply = "cancel"
                                  THEN 1 ELSE exitCode
                   /\ started' = IF hasPublishing /\ reply = "yes"
                                 THEN Append(started,
                                             "GitHub Actions Monitoring")
                                 ELSE started
    /\ UNCHANGED <<runVars, storeVars,
                   hasChanges, repo, stage, caller, job, relCtx,
                   relErr>>

\* watchGitHubActions returns: it catches what its engine run throws.
Monitoring ==
    /\ relPc = "monitoring"
    /\ relPc' = "deployOffer"
    /\ UNCHANGED <<runVars, storeVars,
                   relOpts, hasChanges, repo, stage, exitCode,
                   caller, job, relCtx, relErr, started, asked>>

\* Unless dryRun or nonInteractive is set, and when the repository has a
\* wrangler configuration, the release command asks whether to deploy to
\* Cloudflare Workers, and on yes calls deployToCloudflare.
DeployOffer ==
    /\ relPc = "deployOffer"
    /\ IF ~Offers(relOpts)
       THEN /\ relPc' = "done"
            /\ UNCHANGED <<started, exitCode, asked>>
       ELSE \E hasCloudflare \in BOOLEAN :
            \E reply \in {"yes", "no", "cancel"} :
              /\ asked' = IF hasCloudflare
                           THEN asked \cup {"deployment"} ELSE asked
              /\ relPc' = IF ~hasCloudflare \/ reply = "no" THEN "done"
                          ELSE IF reply = "yes" THEN "deploying"
                          ELSE "exited"
              /\ exitCode' = IF hasCloudflare /\ reply = "cancel"
                             THEN 1 ELSE exitCode
              /\ started' = IF hasCloudflare /\ reply = "yes"
                            THEN Append(started, "deployToCloudflare")
                            ELSE started
    /\ UNCHANGED <<runVars, storeVars,
                   relOpts, hasChanges, repo, stage, caller, job,
                   relCtx, relErr>>

\* deployToCloudflare(): npx wrangler deploy; its error is caught and
\* printed.
Deploy ==
    /\ relPc = "deploying"
    /\ \E ok \in BOOLEAN :
         repo' = [repo EXCEPT !.wrangler =
                     Append(@, IF ok THEN "deployed" ELSE "failed")]
    /\ relPc' = "done"
    /\ UNCHANGED <<runVars, storeVars,
                   relOpts, hasChanges, stage, exitCode, caller,
                   job, relCtx, relErr, started, asked>>

ReleaseInit ==
    /\ relPc = "cli"
    /\ relOpts = Unread
    /\ hasChanges = "unchecked"
    /\ repo = Untouched
    /\ stage = 0
    /\ exitCode = Unset
    /\ caller = "none"
    /\ job = NoJob
    /\ relCtx = NoContext
    /\ relErr = NoError
    /\ started = <<>>
    /\ asked = {}

\* ------------------------------------------------------------- GitStore
\* getCommits(since, limit = 50): maxCount of git log
LogLimit == 50

\* A commit that follows no convention, as in "update dependencies".
PlainCommit == Message("", "", FALSE, FALSE)
\* The messages of the commits of the model: fix: ..., feat: ...,
\* feat(api): ..., feat(api)!: ..., fix!: ..., chore: ..., and one without
\* type.
CommitMessages ==
    {Message("fix", "", FALSE, TRUE), Message("feat", "", FALSE, TRUE),
     Message("feat", "api", FALSE, TRUE), Message("feat", "api", TRUE, TRUE),
     Message("fix", "", TRUE, TRUE), Message("chore", "", FALSE, TRUE),
     PlainCommit}

RECURSIVE Reverse(_)
Reverse(s) == IF s = <<>> THEN <<>> ELSE Append(Reverse(Tail(s)), Head(s))

\* git.log({ from: since, to: 'HEAD', maxCount: limit }): the newest
\* commits of the range first, limit of them at most; the log is kept
\* oldest first.
GitLog(log, limit) ==
    LET n == Len(log)
        first == IF n > limit THEN n - limit + 1 ELSE 1
    IN Reverse(SubSeq(log, first, n))

\* getCommitsSinceTag(): this.getCommits(latestTag), or this.getCommits()
\* when there is no tag.
GetCommitsSinceTag(log) == ParseLog(GitLog(log, LogLimit))

NoBump == [type |-> "none", value |-> "none"]

\* git commit: one more commit since the latest tag.
Commit ==
    /\ Len(gitLog) < MaxCommits
    /\ \E m \in CommitMessages : gitLog' = Append(gitLog, m)
    /\ UNCHANGED <<runVars, releaseVars, bumped, gitTags, manifest, imported,
                   answer,
                   logVars, watch>>

\* A series of commits without type, as many as git log is asked for.
CommitSeries ==
    /\ Len(gitLog) <= MaxCommits
    /\ gitLog' = gitLog \o [k \in 1..LogLimit |-> PlainCommit]
    /\ UNCHANGED <<runVars, releaseVars, bumped, gitTags, manifest, imported,
                   answer,
                   logVars, watch>>

\* The version bump of 'Version calculation' for the commits of the
\* repository: getCommitsSinceTag, then the bump for options.type.
CalculateBump ==
    /\ \E type \in {"undefined", "patch", "minor", "major"} :
         bumped' = [type |-> type,
                    value |-> VersionBump(type, GetCommitsSinceTag(gitLog))]
    /\ UNCHANGED <<runVars, releaseVars, gitLog, gitTags, manifest, imported,
                   answer,
                   logVars, watch>>

\* The tags of the model, by the version of their name without its v, and
\* a tag whose name is no version.
TagInputs ==
    {Version(1, 0, 0, "release"), Version(1, 1, 0, "release"),
     Version(2, 0, 0, "release"), Version(0, 0, 0, "name")}

\* Whether version a is newer than version b.
Newer(a, b) ==
    \/ a.major > b.major
    \/ a.major = b.major /\ a.minor > b.minor
    \/ a.major = b.major /\ a.minor = b.minor /\ a.patch > b.patch

\* tags.all.find(tag => tag.match(/^v?\d+\.\d+\.\d+/)) of the tags sorted by
\* --sort=-version:refname, and latestTag.replace(/^v/, ''); NoVersion when
\* no tag matches.
LatestTag(tags) ==
    LET matching == {t \in tags : t.kind = "release"} IN
    IF matching = {} THEN NoVersion
    ELSE CHOOSE t \in matching : \A u \in matching : ~Newer(u, t)

\* package.json: whether the file can be read and parsed, its version
\* field (NoVersion: it has none; EmptyVersion: ""), and its other fields.
Manifests ==
    {[readable |-> r, version |-> v, rest |-> "name, scripts"] :
        r \in BOOLEAN,
        v \in {Version(1, 0, 0, "release"), Version(1, 1, 0, "release"),
               NoVersion, EmptyVersion}}
NotImported == [loaded |-> FALSE, version |-> NoVersion]
NoAnswer ==
    [op |-> "none", arg |-> NoVersion, value |-> NoVersion, threw |-> FALSE,
     caught |-> FALSE, error |-> "none"]

\* packageJson.default.version || '0.0.0'
VersionOrDefault(v) ==
    IF v \in {NoVersion, EmptyVersion} THEN Version(0, 0, 0, "release") ELSE v

\* getCurrentVersion(): the latest tag that looks like a version; else the
\* version of package.json, imported as a module, which the module system
\* loads once; '0.0.0' when git or the import fails (caught).
GetCurrentVersion ==
    /\ \E fails \in BOOLEAN :
         LET tag == LatestTag(gitTags)
             module == IF imported.loaded THEN imported
                       ELSE [loaded |-> TRUE, version |-> manifest.version]
             returns(v, c) == [op |-> "getCurrentVersion", arg |-> NoVersion,
                               value |-> v, threw |-> FALSE, caught |-> c,
                               error |-> "none"]
         IN
         IF fails \/ (tag = NoVersion /\ ~imported.loaded
                        /\ ~manifest.readable)
         THEN /\ answer' = returns(Version(0, 0, 0, "release"), TRUE)
              /\ UNCHANGED imported
         ELSE IF tag # NoVersion
         THEN /\ answer' = returns(tag, FALSE)
              /\ UNCHANGED imported
         ELSE /\ answer' = returns(VersionOrDefault(module.version), FALSE)
              /\ imported' = module
    /\ UNCHANGED <<runVars, releaseVars, gitLog, bumped, gitTags, manifest,
                   logVars, watch>>

\* updatePackageVersion(newVersion): JSON.parse of the file, packageJson.
\* version = newVersion, and the file written again; what fails is thrown
\* as a GitError.
UpdatePackageVersion ==
    /\ \E v \in {Version(1, 0, 0, "release"), Version(1, 1, 0, "release"),
                 Version(2, 0, 0, "release"), EmptyVersion} :
       \E written \in BOOLEAN :
         LET ok == manifest.readable /\ written IN
         /\ manifest' = IF ok THEN [manifest EXCEPT !.version = v]
                        ELSE manifest
         /\ answer' = [op |-> "updatePackageVersion", arg |-> v,
                       value |-> NoVersion, threw |-> ~ok, caught |-> ~ok,
                       error |-> IF ok THEN "none" ELSE "GitError"]
    /\ UNCHANGED <<runVars, releaseVars, gitLog, bumped, gitTags, imported,
                   logVars, watch>>

\* What createTag has in its catch block: the Error it has thrown itself
\* for a name that exists, or what git has thrown.  git reports 'already
\* exists' for a tag only when the name exists, which the test before has
\* excluded: its other messages do not hold these words.
TagExists == [isError |-> TRUE, exists |-> TRUE]
GitFailures == {[isError |-> TRUE, exists |-> FALSE]}

\* Variant: a catch block that wraps whatever it has caught.
CreateTagCatchWraps(e) == "GitError"

\* catch (error): thrown as it is when it is an Error whose message
\* includes 'already exists', else createGitError('Failed to create tag')
CreateTagCatch(e) ==
    IF e.isError /\ e.exists THEN "already exists" ELSE "GitError"

\* createTag(tagName, message): git.tags(), the test of the name, and
\* git.addAnnotatedTag or git.addTag.
CreateTag ==
    /\ \E name \in TagInputs :
       \E listed, added \in BOOLEAN :
         LET threw(e) == [op |-> "createTag", arg |-> name,
                          value |-> NoVersion, threw |-> TRUE,
                          caught |-> e \in GitFailures,
                          error |-> CreateTagCatch(e)]
         IN
         IF ~listed
         THEN /\ \E e \in GitFailures : answer' = threw(e)
              /\ UNCHANGED gitTags
         ELSE IF name \in gitTags
         THEN /\ answer' = threw(TagExists)
              /\ UNCHANGED gitTags
         ELSE IF ~added
         THEN /\ \E e \in GitFailures : answer' = threw(e)
              /\ UNCHANGED gitTags
         ELSE /\ answer' = [op |-> "createTag", arg |-> name,
                            value |-> NoVersion, threw |-> FALSE,
                            caught |-> FALSE, error |-> "none"]
              /\ gitTags' = gitTags \cup {name}
    /\ UNCHANGED <<runVars, releaseVars, gitLog, bumped, manifest, imported,
                   logVars, watch>>

\* ------------------------------------------------------------ changelog
\* The text of a commit message, in pieces: "feat", "(", "api", ")", "!",
\* ": " and the description.  A line of a file is such a sequence too, and
\* <<>> is the empty line.
Text(m) ==
    (IF m.word = "" THEN <<>> ELSE <<m.word>>)
    \o (IF m.scope = "" THEN <<>> ELSE <<"(", m.scope, ")">>)
    \o (IF m.bang THEN <<"!">> ELSE <<>>)
    \o (IF m.sep THEN <<": ">> ELSE IF m.word = "" THEN <<>> ELSE <<" ">>)
    \o <<"description">>

\* CommitInfo: the message, and the type parseCommit has found.
CommitInfo(m) == [message |-> Text(m), type |-> ParseCommit(m).type]
\* The commits of the context, as getCommitsSinceTag has returned them.
CommitInfos(log) ==
    LET l == GitLog(log, LogLimit) IN [k \in DOMAIN l |-> CommitInfo(l[k])]

\* commit.message.replace(/^feat(\([^)]+\))?: /, ''), and the same for fix
StripPrefix(text, type) ==
    LET scoped == Len(text) >= 4 /\ text[2] = "(" /\ text[4] = ")"
        rest == IF scoped THEN SubSeq(text, 5, Len(text)) ELSE Tail(text)
    IN IF text # <<>> /\ text[1] = type /\ rest # <<>> /\ rest[1] = ": "
       THEN Tail(rest) ELSE text

\* generateChangelogEntry(version, commits), as the lines of the string it
\* returns (the date of the heading left out).
GenerateChangelogEntry(version, commits) ==
    LET IsFeature(c) == c.type = "feat"
        IsFix(c) == c.type = "fix"
        IsOther(c) == c.type \notin {"feat", "fix"}
        features == SelectSeq(commits, IsFeature)
        fixes == SelectSeq(commits, IsFix)
        others == SelectSeq(commits, IsOther)
        Section(heading, lines) ==
            IF lines = <<>> THEN <<>>
            ELSE <<<<"### ", heading>>, <<>>>> \o lines \o <<<<>>>>
    IN <<<<"## ", version>>, <<>>>>
       \o Section("Features",
                  [k \in DOMAIN features |->
                     <<"- ">> \o StripPrefix(features[k].message, "feat")])
       \o Section("Bug Fixes",
                  [k \in DOMAIN fixes |->
                     <<"- ">> \o StripPrefix(fixes[k].message, "fix")])
       \o Section("Other Changes",
                  [k \in DOMAIN others |-> <<"- ">> \o others[k].message])
       \o <<<<>>>>

\* The entry of 'Generate changelog' for the commits of the repository.
GenerateEntry ==
    /\ entry' = GenerateChangelogEntry("next", CommitInfos(gitLog))
    /\ UNCHANGED <<runVars, releaseVars, gitLog, bumped, gitTags, manifest,
                   imported, answer, changelog, releases,
                   watch>>

\* Number of releases that write their entry into CHANGELOG.md.
MaxReleases == 2
\* line.startsWith('# ')
IsHeader(line) == line # <<>> /\ line[1] = "# "
HeaderLine == <<"# ", "Changelog">>

\* The files CHANGELOG.md the model starts with, as their lines: no file
\* (<<>>), an empty file, and files with or without lines before the
\* header, a header, an empty line under it, an introduction, and the
\* entries of earlier releases.
ExistingChangelogs ==
    LET OldEntry(v) == <<<<"## ", v>>, <<>>, <<"- ", "description">>, <<>>>>
    IN
    {<<>>, <<<<>>>>}
    \cup {pre \o head \o intro \o old :
            pre \in {<<>>, <<<<"badge">>, <<>>>>},
            head \in {<<>>, <<HeaderLine>>, <<HeaderLine, <<>>>>},
            intro \in {<<>>, <<<<"introduction">>, <<>>>>},
            old \in {<<<<>>>>, OldEntry("1.0.0"),
                     OldEntry("1.0.0") \o OldEntry("0.9.0")}}

\* insertChangelogEntry(existingChangelog, newEntry): lines.findIndex of
\* the header; without one, `# Changelog\n\n${newEntry}\n${existing}`; else
\* lines.splice(headerIndex + 2, 0, newEntry)
InsertChangelogEntry(lines, newEntry) ==
    LET n == Len(lines)
        headers == {k \in 1..n : IsHeader(lines[k])}
    IN IF headers = {} THEN <<HeaderLine, <<>>>> \o newEntry \o lines
       ELSE LET h == CHOOSE k \in headers : \A j \in headers : k <= j
                at == IF h + 1 > n THEN n ELSE h + 1
            IN SubSeq(lines, 1, at) \o newEntry \o SubSeq(lines, at + 1, n)

\* The task of 'Generate changelog': the entry for the next version; the
\* file read and the entry inserted, or, when the file cannot be read, a
\* new file `# Changelog\n\n${changelogEntry}`.
WriteChangelog ==
    /\ releases < MaxReleases
    /\ \E log \in {<<>>, <<Message("feat", "", FALSE, TRUE)>>,
                   <<Message("fix", "", FALSE, TRUE), PlainCommit>>} :
         LET next == <<"1.0.1", "1.0.2", "1.0.3", "1.0.4">>
             e == GenerateChangelogEntry(next[releases + 1],
                                         CommitInfos(log))
         IN /\ entry' = e
            /\ changelog' = IF changelog = <<>>
                            THEN <<HeaderLine, <<>>>> \o e
                            ELSE InsertChangelogEntry(changelog, e)
    /\ releases' = releases + 1
    /\ UNCHANGED <<runVars, releaseVars, gitLog, bumped, gitTags, manifest,
                   imported, answer, watch>>

\* ------------------------------------------- the post-release monitoring
\* const maxAttempts = 30, of the search for the publishing workflow
SearchMaxAttempts == 30
\* const maxAttempts = 60, of monitorRunningWorkflow
WatchMaxAttempts == 60
\* The polls of one loop the model follows.
MaxPolls == 61

\* The monitoring before it starts. impl is the implementation that runs:
\* "listr" for watchGitHubActions of workflows/release.ts, whose steps run
\* in a task engine, "plain" for the watchGitHubActions that writes to the
\* terminal and calls monitorWorkflowRun. polls and watchPolls count the
\* calls of gh in the two loops.
NoRun == [status |-> "none", conclusion |-> "none"]
NoWatch ==
    [impl |-> "none", step |-> "idle", attempts |-> 0, polls |-> 0,
     publishingWorkflow |-> NoRun, workflowFailed |-> "undefined",
     watchAttempts |-> 0, watchPolls |-> 0, lastStatus |-> "",
     isCompleted |-> FALSE, concluded |-> "none",
     monitor |-> "pending", verify |-> "pending"]

\* One pass of the loop of the search: while (!foundPublishingWorkflow &&
\* attempts < maxAttempts). The call of gh run list yields a failure
\* ("error"), no recent publishing run ("none"), or such a run (the fields
\* asked for have no conclusion).
FindPoll ==
    /\ watch.step = "find"
    /\ watch.attempts < SearchMaxAttempts
    /\ \E rp \in {[status |-> x, conclusion |-> "undefined"] :
                    x \in {"error", "none", "queued", "in_progress",
                           "completed"}} :
         LET w == [watch EXCEPT !.polls = @ + 1] IN
         watch' =
           IF rp.status = "error"
           THEN \* listr: throw new Error('Failed to check workflows'), the
                \* list rejects and the later steps are not run; plain:
                \* break
                [w EXCEPT !.step = IF w.impl = "listr" THEN "failed"
                                   ELSE "done"]
           ELSE IF rp.status = "none"
           THEN [w EXCEPT !.attempts = @ + 1]
           ELSE IF w.impl = "listr"
           THEN [w EXCEPT !.publishingWorkflow = rp, !.step = "monitor"]
           ELSE [w EXCEPT !.publishingWorkflow = rp,
                          !.step = IF rp.status = "completed"
                                   THEN "completed" ELSE "watch"]
    /\ UNCHANGED <<runVars, releaseVars, gitLog, bumped, gitTags, manifest,
                   imported, answer, logVars>>

\* The search ends without a workflow: attempts has reached maxAttempts.
FindGiveUp ==
    /\ watch.step = "find"
    /\ watch.attempts >= SearchMaxAttempts
    /\ watch' = [watch EXCEPT !.step = IF watch.impl = "listr"
                                       THEN "monitor" ELSE "done"]
    /\ UNCHANGED <<runVars, releaseVars, gitLog, bumped, gitTags, manifest,
                   imported, answer, logVars>>

\* The step 'Monitor workflow execution', skip: (ctx) =>
\* !ctx.publishingWorkflow, up to the first poll of monitorRunningWorkflow;
\* handleCompletedWorkflow reads workflow.conclusion.
MonitorStep ==
    /\ watch.step = "monitor"
    /\ watch.impl = "listr"
    /\ LET skip == IF watch.publishingWorkflow = NoRun THEN "true"
                   ELSE "false"
           run == watch.publishingWorkflow
       IN watch' =
            IF StepSkipped(skip)
            THEN [watch EXCEPT !.monitor = "skipped", !.step = "verify"]
            ELSE IF run.status = "completed"
            THEN [watch EXCEPT !.monitor = "ran", !.step = "verify",
                               !.concluded = run.conclusion]
            ELSE [watch EXCEPT !.monitor = "ran", !.step = "watch"]
    /\ UNCHANGED <<runVars, releaseVars, gitLog, bumped, gitTags, manifest,
                   imported, answer, logVars>>

\* showCompletedWorkflowResults of the plain implementation: gh run view,
\* and checkNpmPackage after a conclusion of success.
ShowCompleted ==
    /\ watch.step = "completed"
    /\ \E c \in {"error", "success", "failure"} :
         watch' = [watch EXCEPT
                     !.step = "done",
                     !.concluded = IF c = "error" THEN @ ELSE c,
                     !.verify = IF c = "success" THEN "ran" ELSE @]
    /\ UNCHANGED <<runVars, releaseVars, gitLog, bumped, gitTags, manifest,
                   imported, answer, logVars>>

\* One pass of the loop that watches the run: monitorRunningWorkflow
\* (while (!isCompleted && attempts < maxAttempts)) and monitorWorkflowRun
\* (while (!isCompleted)).
WatchPoll ==
    /\ watch.step = "watch"
    /\ ~watch.isCompleted
    /\ watch.impl = "listr" => watch.watchAttempts < WatchMaxAttempts
    /\ watch.watchPolls < MaxPolls
    /\ \E rp \in {[status |-> x, conclusion |-> "none"] :
                     x \in {"error", "queued", "in_progress"}} \cup
                  {[status |-> "completed", conclusion |-> c] :
                     c \in {"success", "failure"}} :
         LET w == [watch EXCEPT !.watchPolls = @ + 1]
             after == IF w.impl = "listr" THEN "verify" ELSE "done"
         IN watch' =
              IF rp.status = "error"
              THEN [w EXCEPT !.step = after]
              ELSE IF rp.status = "completed"
              THEN [w EXCEPT !.lastStatus = rp.status,
                             !.isCompleted = TRUE,
                             !.concluded = rp.conclusion,
                             !.verify = IF w.impl = "plain"
                                           /\ rp.conclusion = "success"
                                        THEN "ran" ELSE @,
                             !.step = after]
              ELSE [w EXCEPT !.lastStatus = rp.status,
                             !.watchAttempts = IF w.impl = "listr"
                                               THEN @ + 1 ELSE @]
    /\ UNCHANGED <<runVars, releaseVars, gitLog, bumped, gitTags, manifest,
                   imported, answer, logVars>>

\* monitorRunningWorkflow ends with 'Monitoring timeout': attempts has
\* reached maxAttempts.
WatchTimeout ==
    /\ watch.step = "watch"
    /\ watch.impl = "listr"
    /\ ~watch.isCompleted
    /\ watch.watchAttempts >= WatchMaxAttempts
    /\ watch' = [watch EXCEPT !.step = "verify"]
    /\ UNCHANGED <<runVars, releaseVars, gitLog, bumped, gitTags, manifest,
                   imported, answer, logVars>>

\* The step 'Verify npm package availability', skip: (ctx) =>
\* !ctx.publishingWorkflow || ctx.workflowFailed
VerifyStep ==
    /\ watch.step = "verify"
    /\ LET skip == IF watch.publishingWorkflow = NoRun THEN "true"
                   ELSE watch.workflowFailed
       IN watch' = [watch EXCEPT
                      !.verify = IF StepSkipped(skip) THEN "skipped"
                                 ELSE "ran",
                      !.step = "done"]
    /\ UNCHANGED <<runVars, releaseVars, gitLog, bumped, gitTags, manifest,
                   imported, answer, logVars>>

\* A repository with no commit since its latest tag, no tag with a version
\* and a package.json of version 1.0.0, before any call of GitStore.
StoreInit ==
    /\ gitLog = <<>>
    /\ bumped = NoBump
    /\ gitTags = {}
    /\ manifest = [readable |-> TRUE, version |-> Version(1, 0, 0, "release"),
                   rest |-> "name, scripts"]
    /\ imported = NotImported
    /\ answer = NoAnswer
    /\ entry = <<>>
    /\ changelog = <<>>
    /\ releases = 0

\* ------------------------------------------------------- specification
EngineInit ==
    /\ parent \in {[r \in Runs |-> IF r = "main" THEN p ELSE <<>>] :
                      p \in Shapes}
    /\ pc = [r \in Runs |-> "idle"]
    /\ opts = [r \in Runs |->
                 [concurrent |-> FALSE, exitOnError |-> TRUE,
                  autoRecovery |-> "unread"]]
    /\ title = [r \in Runs |-> [i \in Nodes(r) |-> "step"]]
    /\ st = [r \in Runs |-> [i \in Nodes(r) |-> "waiting"]]
    /\ att = [r \in Runs |-> [i \in Nodes(r) |-> 0]]
    /\ retry = [r \in Runs |-> [i \in Nodes(r) |-> Unset]]
    /\ conc = [r \in Runs |-> [i \in Nodes(r) |-> "unset"]]
    /\ lst = [r \in Runs |-> [g \in Lists(r) |-> "idle"]]
    /\ lerr = [r \in Runs |-> [g \in Lists(r) |-> NoErr]]
    /\ calls = [r \in Runs |-> <<>>]
    /\ hist = [r \in Runs |-> [threw |-> FALSE, conc |-> FALSE]]
    /\ ctx = [f \in 1..NumFields |-> 0]
    /\ enabledEvals = [r \in Runs |-> {}]
    /\ skipEvals = [r \in Runs |-> {}]
    /\ lastEval = NoEval
    /\ raised = [r \in Runs |-> NoRaise]
    /\ recPc = "idle"
    /\ recArg = [err |-> NoErr, hasContext |-> FALSE, hasMessage |-> FALSE,
                 by |-> "none", text |-> {}]
    /\ recCalls = 0
    /\ analysis = NoAnalysis
    /\ cmds = <<>>

Init == EngineInit /\ ReleaseInit /\ StoreInit /\ watch = NoWatch

Next ==
    \/ Execute
    \/ \E r \in Runs : \E i \in Nodes(r) : StartStep(r, i)
    \/ \E r \in Runs : \E i \in Nodes(r) : SettleTask(r, i)
    \/ \E r \in Runs : \E i \in Nodes(r) : GroupSettle(r, i)
    \/ \E r \in Runs : \E i \in Nodes(r) : GroupReject(r, i)
    \/ \E r \in Runs : Return(r)
    \/ \E r \in Runs : Catch(r)
    \/ DirectRecovery
    \/ RecoveryBegin
    \/ RecoveryEnd
    \/ Rethrow

Spec == Init /\ [][Next]_vars

\* The release command alone, with an idle engine.
InitRelease == Init /\ parent["main"] = [i \in 1..MaxSteps |-> 0]

NextRelease ==
    \/ ReleaseCommand
    \/ LibraryRelease
    \/ PreFlight
    \/ ChooseAction
    \/ ReleaseStep
    \/ RunCommand
    \/ RepositoryAnalysis
    \/ VersionCalculation
    \/ RunTask
    \/ ReleaseCatch
    \/ ReleaseDone
    \/ MonitoringOffer
    \/ Monitoring
    \/ DeployOffer
    \/ Deploy

SpecRelease == InitRelease /\ [][NextRelease]_vars

\* The version bump for the commits of a repository.
NextBump == Commit \/ CommitSeries \/ CalculateBump
SpecBump == InitRelease /\ [][NextBump]_vars

\* GitStore alone, on a repository with some tags and some package.json.
InitStore ==
    /\ EngineInit /\ parent["main"] = [i \in 1..MaxSteps |-> 0]
    /\ ReleaseInit
    /\ gitLog = <<>> /\ bumped = NoBump
    /\ gitTags \in SUBSET TagInputs
    /\ manifest \in Manifests
    /\ imported = NotImported
    /\ answer = NoAnswer
    /\ entry = <<>> /\ changelog = <<>> /\ releases = 0
    /\ watch = NoWatch
NextStore == GetCurrentVersion \/ UpdatePackageVersion \/ CreateTag
SpecStore == InitStore /\ [][NextStore]_vars

\* The changelog entry for the commits of a repository.
NextEntry == Commit \/ GenerateEntry
SpecEntry == InitRelease /\ [][NextEntry]_vars

\* CHANGELOG.md over the releases of a repository.
InitChangelog ==
    /\ EngineInit /\ parent["main"] = [i \in 1..MaxSteps |-> 0]
    /\ ReleaseInit
    /\ gitLog = <<>> /\ bumped = NoBump /\ gitTags = {}
    /\ manifest \in {m \in Manifests :
                       m.readable /\ m.version = Version(1, 0, 0, "release")}
    /\ imported = NotImported
    /\ answer = NoAnswer
    /\ entry = <<>> /\ releases = 0
    /\ watch = NoWatch
    /\ changelog \in ExistingChangelogs
NextChangelog == WriteChangelog
SpecChangelog == InitChangelog /\ [][NextChangelog]_vars

\* watchGitHubActions is called, in either implementation
InitMonitor ==
    /\ EngineInit /\ ReleaseInit /\ StoreInit
    /\ parent["main"] = [i \in 1..MaxSteps |-> 0]
    /\ watch \in {[NoWatch EXCEPT !.impl = i, !.step = "find"] :
                     i \in {"listr", "plain"}}

\* watchGitHubActions, in its two implementations
NextMonitor ==
    \/ FindPoll
    \/ FindGiveUp
    \/ MonitorStep
    \/ ShowCompleted
    \/ WatchPoll
    \/ WatchTimeout
    \/ VerifyStep
SpecMonitor == InitMonitor /\ [][NextMonitor]_vars

\* ---------------------------------------------------------------- claims
Leaves(r) == {i \in Nodes(r) : ~IsGroup(r, i)}
Invoked(r) == {calls[r][k] : k \in DOMAIN calls[r]}
InDocumentOrder(s) == \A k \in DOMAIN s : k > 1 => s[k - 1] < s[k]

\* A run in which no step was disabled or skipped, no list is concurrent
\* and no task has thrown.
PlainRun(r) ==
    /\ ~opts[r].concurrent
    /\ ~hist[r].conc
    /\ ~hist[r].threw
    /\ \A i \in Nodes(r) : st[r][i] \notin {"disabled", "skipped"}

\* C1: in a run whose steps are neither disabled nor skipped, with no
\* concurrent list and no failing task, the step tasks are invoked in
\* document order, none more than once, execute does not throw, and when it
\* returns every leaf step's task has been invoked.
C1_DocumentOrder ==
    PlainRun("main") =>
        /\ InDocumentOrder(calls["main"])
        /\ \A i \in Nodes("main") : att["main"][i] <= 1
        /\ pc["main"] # "threw"
        /\ pc["main"] = "returned" => Invoked("main") = Leaves("main")

C1_Witness ==
    /\ PlainRun("main")
    /\ pc["main"] = "returned"
    /\ Len(calls["main"]) = MaxSteps - 1
    /\ \E g \in Nodes("main") : IsGroup("main", g)

\* A step that was not run, with what that means for it and its subtasks:
\* its task was not invoked, no subtask was visited.
NotRun(r, i) ==
    /\ att[r][i] = 0
    /\ i \notin Invoked(r)
    /\ \A d \in Desc(r, i) :
         /\ st[r][d] = "waiting"
         /\ att[r][d] = 0
         /\ d \notin Invoked(r)
         /\ d \notin enabledEvals[r] \cup skipEvals[r]

LaterSiblings(r, i) == {j \in Children(r, parent[r][i]) : j > i}

\* C2: a step whose skip yields true or a non-empty string is skipped: its
\* task is not invoked, none of its subtasks is visited, and its list goes
\* on with the next sibling.
C2_SkippedStep ==
    /\ (lastEval.step # 0 /\ lastEval.skip \in {"true", "reason"}) =>
          /\ st[lastEval.run][lastEval.step] = "skipped"
          /\ ~ListConcurrent(lastEval.run, parent[lastEval.run][lastEval.step])
                => lst[lastEval.run][parent[lastEval.run][lastEval.step]]
                      = "live"
    /\ \A r \in Runs : \A i \in Nodes(r) :
          st[r][i] = "skipped" => NotRun(r, i)

C2_Witness ==
    \E i \in Nodes("main") :
       /\ st["main"][i] = "skipped"
       /\ IsGroup("main", i)
       /\ \E j \in LaterSiblings("main", i) : j \in Invoked("main")

\* C3: a step whose enabled yields false is absent from the run: skip is
\* not evaluated, its task is not invoked, none of its subtasks is visited,
\* and disabling it changes neither the invocations nor the context nor
\* the progress of the run.
C3_DisabledStep ==
    [][/\ (lastEval'.step # 0 /\ lastEval'.enabled = "false") =>
             /\ st'[lastEval'.run][lastEval'.step] = "disabled"
             /\ lastEval'.skip = "unevaluated"
             /\ UNCHANGED <<pc, att, retry, conc, lst, lerr, calls, hist,
                            ctx, skipEvals, raised, cmds>>
       /\ \A r \in Runs : \A i \in Nodes(r) :
             st'[r][i] = "disabled" =>
                /\ i \notin skipEvals'[r]
                /\ NotRun(r, i)']_vars

C3_Witness ==
    \E i \in Nodes("main") :
       /\ st["main"][i] = "disabled"
       /\ IsGroup("main", i)
       /\ \E j \in LaterSiblings("main", i) : j \in Invoked("main")

\* The attempts listr2 allows a step that declares retry rt.
Attempts(rt) == IF rt > 0 THEN rt + 1 ELSE 1

\* C7: a step that declares retry r > 0 has its task invoked again only
\* after a throw, at most r + 1 times in all for a run of the step, and not
\* again once it has returned; its failure is final only when the last of
\* the r + 1 invocations has thrown; with retry absent or 0 the first throw
\* is final.
C7_Retry ==
    [][\A r \in Runs : \A i \in Nodes(r) :
         /\ att'[r][i] <= Attempts(retry'[r][i])
         /\ (att[r][i] > 0 /\ att'[r][i] > att[r][i]) =>
               /\ att'[r][i] = att[r][i] + 1
               /\ st[r][i] = "running"
               /\ hist'[r].threw
         /\ (st[r][i] = "running" /\ st'[r][i] = "failed") =>
               /\ att[r][i] = Attempts(retry[r][i])
               /\ hist'[r].threw
         /\ st[r][i] = "completed" => att'[r][i] = 0]_vars

C7_Witness ==
    \E i \in Nodes("main") :
       /\ ~IsGroup("main", i)
       /\ retry["main"][i] = MaxRetry
       /\ att["main"][i] = MaxRetry + 1

\* The failure of step i stands for good: every group around it has failed
\* or is in the last attempt its retry allows.
FailureFinal(r, i) ==
    /\ st[r][i] = "failed"
    /\ \A a \in Anc(r, i) :
          \/ st[r][a] = "failed"
          \/ st[r][a] = "running" /\ att[r][a] = Attempts(retry[r][a])

\* C4, as stated: with the default engine options, once a step has failed
\* the task of no later step is invoked and execute does not return.
C4_AsStated ==
    [][\A i \in Nodes("main") :
         (opts["main"].exitOnError /\ ~opts["main"].concurrent
            /\ st["main"][i] = "failed") =>
            /\ pc'["main"] # "returned"
            /\ \A j \in Leaves("main") :
                  j > i => att'["main"][j] <= att["main"][j]]_vars

\* C4: with exitOnError, while the failure of a step stands, no step that
\* follows it, or follows a group around it, in a list that is not
\* concurrent is started; and when no retry of a group around it is left
\* to run the step again, execute does not return.
C4_FailureStops ==
    \A i \in Nodes("main") :
       (opts["main"].exitOnError /\ st["main"][i] = "failed") =>
          /\ \A x \in {i} \cup Anc("main", i) :
                ~ListConcurrent("main", parent["main"][x]) =>
                   \A j \in LaterSiblings("main", x) :
                      st["main"][j] = "waiting" /\ NotRun("main", j)
          /\ FailureFinal("main", i) => pc["main"] # "returned"

C4_Witness ==
    \E i \in Nodes("main") :
       /\ opts["main"].exitOnError
       /\ FailureFinal("main", i)
       /\ \E a \in Anc("main", i) : LaterSiblings("main", a) # {}
       /\ pc["main"] = "threw"

\* C5, as stated: what execute throws carries the message of the step
\* failure that ended the run, and the run context.
C5_AsStated ==
    pc["main"] = "threw" =>
       /\ raised["main"].src = lerr["main"][0].src
       /\ raised["main"].hasContext

\* C6, as stated: without exitOnError the siblings of a failed step are
\* all run, and execute then does not return normally.
C6_AsStated ==
    (~opts["main"].exitOnError
       /\ \E i \in Nodes("main") : st["main"][i] = "failed") =>
          /\ pc["main"] # "returned"
          /\ pc["main"] = "threw" =>
                \A j \in Children("main", 0) : Done(st["main"][j])

\* Whether the catch block of execute starts the recovery.
Recovers(r) == lerr[r][0].isError /\ opts[r].autoRecovery # "false"

\* C8, as stated: when the run fails and autoRecovery is not false,
\* executeRecovery has been called once when execute throws.
C8_AsStated ==
    (pc["main"] = "threw" /\ opts["main"].autoRecovery # "false") =>
       recCalls = 1

\* C8: when the run fails with an Error and autoRecovery is not false,
\* executeRecovery is called once, with that error and the run context,
\* and execute throws only after it has returned; when autoRecovery is
\* false, or the value thrown is not an Error, it is not called; execute
\* does not return after a failure.
C8_RecoveryOnce ==
    /\ (pc["main"] \in {"recovering", "threw"} /\ Recovers("main")) =>
          /\ recCalls = 1
          /\ recArg.err = lerr["main"][0]
          /\ recArg.hasContext /\ recArg.hasMessage
          /\ recArg.by = "engine"
    /\ (pc["main"] = "threw" /\ Recovers("main")) =>
          recPc \in {"returned", "reported"}
    /\ (pc["main"] = "threw" /\ ~Recovers("main")) => recCalls = 0
    /\ pc["main"] = "recovering" => Recovers("main")
    /\ pc["main"] = "returned" => recCalls = 0

C8_Witness ==
    /\ pc["main"] = "threw"
    /\ opts["main"].autoRecovery = "undefined"
    /\ recCalls = 1
    /\ recPc = "returned"
    /\ raised["main"].name = "WorkflowExecutionError"

\* C9: executeRecovery does not raise, whatever it is called with and
\* whatever the commands of the recovery steps do: no recovery step fails,
\* the engine run it starts does not throw, and an error inside it is
\* reported.
C9_RecoveryNeverRaises ==
    /\ recPc # "raised"
    /\ pc["recovery"] # "threw"
    /\ \A i \in Nodes("recovery") : st["recovery"][i] # "failed"
    /\ ~recArg.hasMessage => recPc \in {"idle", "called", "reported"}

C9_Witness ==
    /\ recPc = "returned"
    /\ \E k \in DOMAIN cmds : ~cmds[k].ok

\* C10: a non-interactive release run that finds uncommitted changes, with
\* force not set, exits with status 1 in the pre-flight: no step of the
\* pipeline is started, and the manifest, the changelog, the commits, the
\* stash and the tags are left as they were.
C10_PreFlightExit ==
    (relOpts.nonInteractive = "true" /\ relOpts.force # "true"
       /\ hasChanges = "true") =>
       /\ relPc = "exited"
       /\ exitCode = 1
       /\ stage = 0
       /\ repo = Untouched

C10_Witness ==
    /\ relOpts.nonInteractive = "true"
    /\ relOpts.force # "true"
    /\ hasChanges = "true"
    /\ relPc = "exited"

\* ------------------------------------------------- claims: the release
\* The stages of a release run in the order stated, and the order of the
\* release command, whose offer to deploy comes last.
StageOrder ==
    <<"Pre-flight", "Quality Gates", "Git repository analysis",
      "Version calculation", "Deployment configuration", "Release execution",
      "Build project", "Deploy to Cloudflare", "Create GitHub release",
      "GitHub Actions Monitoring">>
CommandOrder == StageOrder \o <<"deployToCloudflare">>

\* deployToCloudflare is the edge deployment, as the pipeline step is.
EdgeStage(s) == IF s = "deployToCloudflare" THEN "Deploy to Cloudflare" ELSE s

PositionIn(order, s) ==
    IF \E k \in DOMAIN order : order[k] = s
    THEN CHOOSE k \in DOMAIN order : order[k] = s
    ELSE 0

\* A stage is executing: it has started, and has not completed.
StageRunning ==
    \/ relPc \in {"choose", "monitoring", "deploying"}
    \/ relPc = "pipeline" /\ job.phase = "running"
    \/ relPc = "pipeline" /\ stage > 0 /\ ~ClosesStage(stage)

HasReleaseCommit ==
    \E k \in DOMAIN repo.commits : repo.commits[k] = ReleaseCommit
Effected(t) ==
    CASE t = "Update package.json version" -> repo.manifest # NoVersion
      [] t = "Generate changelog" -> repo.changelog > 0
      [] t = "Commit release changes" -> HasReleaseCommit
      [] t = "Create git tag" -> repo.tags # <<>>
      [] t = "Push to remote" -> repo.pushedCommits \/ repo.pushedTags
      [] t = "Deploy to Cloudflare" -> repo.wrangler # <<>>
      [] t = "Create GitHub release" -> repo.ghRelease # <<>>
      [] OTHER -> FALSE
\* The run has ended in failure, or is about to.
RunFailed == relPc \in {"failed", "exited", "rejected"}

\* C12: the substeps of release execution take effect in the order
\* manifest, changelog, commit, tag, push: there is a tag only with the
\* release commit, commits are pushed only with the tag, tags are pushed
\* only with the commits pushed; and when a substep has failed the run
\* fails, the pipeline stays at that substep, and no later substep and no
\* later stage has taken effect.
C12_ExecutionOrder ==
    /\ Effected("Generate changelog") => Effected("Update package.json version")
    /\ HasReleaseCommit => Effected("Generate changelog")
    /\ repo.tags # <<>> => HasReleaseCommit
    /\ repo.pushedCommits => repo.tags # <<>>
    /\ repo.pushedTags => repo.pushedCommits
    /\ \A k \in DOMAIN ReleaseSteps :
         (ReleaseStage(ReleaseSteps[k]) = "Release execution"
            /\ relErr.step = ReleaseSteps[k]) =>
            /\ RunFailed
            /\ stage = k
            /\ ~repo.pushedTags
            /\ \A j \in DOMAIN ReleaseSteps :
                 j > k => ~Effected(ReleaseSteps[j])
            /\ "deployToCloudflare" \notin {started[i] : i \in DOMAIN started}

\* The tag step has failed after the release commit was made, and the run
\* has ended.
C12_Witness ==
    /\ relErr.step = "Create git tag"
    /\ HasReleaseCommit
    /\ relPc \in {"exited", "rejected"}

\* C13: when type checking or the tests have failed, the run fails, the
\* manifest is not rewritten, the changelog is not written, there is no
\* release commit and no tag, nothing is pushed, and neither a deployment
\* nor the release publication has been attempted.
C13_QualityGateHalts ==
    relErr.step \in {"Type checking", "Running tests"} =>
       /\ RunFailed
       /\ repo.manifest = NoVersion
       /\ repo.changelog = 0
       /\ ~HasReleaseCommit
       /\ repo.tags = <<>>
       /\ ~repo.pushedCommits /\ ~repo.pushedTags
       /\ repo.wrangler = <<>>
       /\ repo.ghRelease = <<>>
       /\ \A i \in DOMAIN started :
            started[i] \notin {"Release execution", "Build project",
                               "Deploy to Cloudflare", "Create GitHub release",
                               "deployToCloudflare"}

\* The tests have failed, the recovery run has committed its lint fixes,
\* and the release command has exited.
C13_Witness ==
    /\ relErr.step = "Running tests"
    /\ relPc = "exited"
    /\ \E k \in DOMAIN repo.commits : repo.commits[k] = LintFixCommit

\* The test step has tried every candidate command, and each has failed
\* with a message of no tests or of a missing script.
NoTestsFound ==
    /\ stage > 0
    /\ ReleaseSteps[stage] = "Running tests"
    /\ Len(job.tried) = Len(Candidates("Running tests"))
    /\ \A k \in DOMAIN job.tried : job.tried[k] = "notests"

\* C14: when every test command that was tried has failed for want of
\* tests or of a script, 'Running tests' ends in success with
\* quality.testsPassed true, and the step the pipeline starts next is the
\* repository analysis.
C14_NoTestsIsSuccess ==
    [][/\ NoTestsFound' =>
            /\ job'.phase = "done"
            /\ relCtx'.testsPassed = "true"
            /\ relPc' = "pipeline"
            /\ relErr' = NoError
       /\ (NoTestsFound /\ stage' # stage) =>
            /\ ReleaseSteps[stage'] = "Git repository analysis"
            /\ job'.phase = "running"]_vars

\* The test step has ended in success after six commands that found no
\* tests.
C14_Witness ==
    /\ NoTestsFound
    /\ job.phase = "done"
    /\ relCtx.testsPassed = "true"

\* The build step is the step of the pipeline.
Building == stage > 0 /\ ReleaseSteps[stage] = "Build project"

\* C15: the build tries bun run build, then npm run build; it ends in
\* success at the first command that succeeds, and when both scripts are
\* missing; any other failure fails the step at once, with no later
\* candidate tried; and after a failed build neither the edge deployment
\* nor the release publication runs.
C15_BuildChain ==
    [][/\ (Building' /\ job'.tried # <<>> /\ job'.tried # job.tried) =>
            LET last == job'.tried[Len(job'.tried)] IN
            /\ Building /\ job.phase = "running"
            /\ job'.tried = Append(job.tried, last)
            /\ Len(job'.tried) <= 2
            /\ last = "ok" => job'.phase = "done"
            /\ last = "other" =>
                 /\ job'.phase = "threw"
                 /\ relPc' = "failed"
                 /\ relErr'.step = "Build project"
            /\ last = "missing" =>
                 job'.phase = IF Len(job'.tried) = 2 THEN "done" ELSE "running"
       /\ relErr.step = "Build project" =>
            /\ RunFailed' /\ stage' = stage /\ job' = job
            /\ ~Effected("Deploy to Cloudflare")'
            /\ ~Effected("Create GitHub release")'
            /\ started' = started]_vars

\* The build has failed at its first command, and the run has ended.
C15_Witness ==
    /\ relErr.step = "Build project"
    /\ job.tried = <<"other">>
    /\ relPc \in {"exited", "rejected"}
    /\ "deployToCloudflare" \notin {started[i] : i \in DOMAIN started}

\* The step of that title is the step of the pipeline.
AtStep(t) == stage > 0 /\ ReleaseSteps[stage] = t

\* C16: the steps 'Deploy to Cloudflare' and 'Create GitHub release' never
\* end in failure: whatever their command does, the task returns and the
\* pipeline goes on; after the deployment step, failed or not, the release
\* publication is the step that runs; and after the publication step the
\* run returns its context, with no exit status set by it.
C16_NonFatalSteps ==
    [][/\ relErr'.step \notin {"Deploy to Cloudflare", "Create GitHub release"}
       /\ \A t \in {"Deploy to Cloudflare", "Create GitHub release"} :
            (AtStep(t) /\ job.phase = "running") =>
               /\ job'.phase = "done"
               /\ relPc' = "pipeline"
               /\ Len(repo'.wrangler) + Len(repo'.ghRelease)
                    = Len(repo.wrangler) + Len(repo.ghRelease) + 1
       /\ (AtStep("Deploy to Cloudflare") /\ stage' # stage) =>
            /\ AtStep("Create GitHub release")'
            /\ job'.phase = "running"
       /\ (AtStep("Create GitHub release") /\ job.phase = "done"
             /\ relPc = "pipeline") =>
            /\ relPc' \in {"pipeline", "summary", "done"}
            /\ exitCode' = exitCode]_vars

\* A run in which wrangler deploy failed, gh release create failed, and
\* execute has returned the context to the program that called it.
C16_Witness ==
    /\ repo.wrangler = <<"failed">>
    /\ repo.ghRelease = <<"failed">>
    /\ caller = "library"
    /\ relPc = "done"
    /\ relErr = NoError

\* C17: the context gets its cloudflare deployment record only from the
\* step 'Deploy to Cloudflare', when it has run and wrangler deploy has
\* succeeded; when the step is skipped or its command fails no record is
\* written; and the records of the other targets stay as they were.
C17_DeploymentRecord ==
    [][/\ (caller # "none" /\ relCtx'.deployments # relCtx.deployments) =>
            /\ AtStep("Deploy to Cloudflare")
            /\ job.phase = "running"
            /\ repo'.wrangler = Append(repo.wrangler, "deployed")
            /\ relCtx'.deployments = relCtx.deployments \cup {"cloudflare"}
       /\ (AtStep("Deploy to Cloudflare") /\ job.phase = "running"
             /\ repo'.wrangler = Append(repo.wrangler, "failed")) =>
            relCtx' = relCtx
       /\ (stage' # stage /\ AtStep("Deploy to Cloudflare")'
             /\ job'.phase # "running") =>
            relCtx' = relCtx]_vars

\* wrangler deploy has succeeded in the pipeline of a program whose context
\* held the record of another target.
C17_Witness ==
    /\ AtStep("Deploy to Cloudflare")
    /\ job.phase = "done"
    /\ repo.wrangler = <<"deployed">>
    /\ relCtx.deployments = {"npm", "cloudflare"}

\* C19: from a current version X.Y.Z the next version is X.Y.(Z+1) for
\* patch, X.(Y+1).0 for minor, (X+1).0.0 for major, and nothing else; when
\* the current version is no semantic version the step 'Version
\* calculation' fails, changes nothing in the repository and leaves the
\* next version of the context as it was, not set; and in a run whose
\* version calculation has failed the manifest and the changelog are not
\* written, and there is no release commit and no tag.
C19_NextVersion ==
    [][/\ (AtStep("Version calculation") /\ job.phase = "running"
             /\ relCtx'.next.kind = "release"
             /\ relCtx.current.kind = "release") =>
            LET c == relCtx.current
                b == relCtx'.bump
            IN /\ b \in {"patch", "minor", "major"}
               /\ b = "patch" =>
                    relCtx'.next
                      = Version(c.major, c.minor, c.patch + 1, "release")
               /\ b = "minor" =>
                    relCtx'.next = Version(c.major, c.minor + 1, 0, "release")
               /\ b = "major" =>
                    relCtx'.next = Version(c.major + 1, 0, 0, "release")
       /\ (AtStep("Version calculation") /\ job.phase = "running"
             /\ relCtx.current.kind = "invalid") =>
            /\ job'.phase = "threw"
            /\ relPc' = "failed"
            /\ relErr'.step = "Version calculation"
            /\ relCtx'.next = EmptyVersion
            /\ repo' = repo
       /\ relErr'.step = "Version calculation" =>
            /\ RunFailed'
            /\ relCtx'.next = EmptyVersion
            /\ repo'.manifest = NoVersion
            /\ repo'.changelog = 0
            /\ ~HasReleaseCommit'
            /\ repo'.tags = <<>>
            /\ stage' = stage]_vars

\* The version calculation has failed on a current version that is no
\* semantic version, and the run has ended.
C19_Witness ==
    /\ relErr.step = "Version calculation"
    /\ relCtx.current.kind = "invalid"
    /\ relCtx.commits # <<>>
    /\ relPc \in {"exited", "rejected"}

\* The commits since the latest tag, all of them, as parseCommit reads them.
CommitsSinceTag == ParseLog(gitLog)

\* C18, as stated: with no bump kind forced the bump calculated is major
\* if any commit since the latest tag is flagged breaking, else minor if
\* any has type feat, else patch, whatever the order and the number of the
\* commits; a forced bump kind is used unchanged.
C18_AsStated ==
    [][bumped' # bumped =>
         IF bumped'.type # "undefined" THEN bumped'.value = bumped'.type
         ELSE bumped'.value =
                IF \E k \in DOMAIN CommitsSinceTag : CommitsSinceTag[k].breaking
                THEN "major"
                ELSE IF \E k \in DOMAIN CommitsSinceTag :
                          CommitsSinceTag[k].type = "feat"
                THEN "minor"
                ELSE "patch"]_vars

\* C20, as stated: getCurrentVersion() called after updatePackageVersion(v)
\* has written version v returns v when the repository has no tag newer
\* than v and neither git nor the reading of package.json fails; and
\* updatePackageVersion changes no field of package.json but version.
C20_AsStated ==
    [][/\ (/\ answer.op = "updatePackageVersion" /\ ~answer.threw
           /\ answer.arg.kind = "release"
           /\ answer'.op = "getCurrentVersion" /\ ~answer'.caught
           /\ \A t \in gitTags :
                t.kind = "release" => ~Newer(t, answer.arg)) =>
            answer'.value = answer.arg
       /\ manifest' # manifest =>
            /\ answer'.op = "updatePackageVersion"
            /\ manifest' = [manifest EXCEPT !.version = answer'.arg]]_vars

\* C21: createTag on a name that exists throws, and what it throws is the
\* 'already exists' error, not a GitError, unless git itself has failed;
\* every failure of git in createTag is thrown as the GitError 'Failed to
\* create tag'; createTag that throws leaves the tags as they are, and
\* createTag that returns has added the name.
C21_CreateTag ==
    [][(answer'.op = "createTag" /\ (answer' # answer \/ gitTags' # gitTags)) =>
         LET name == answer'.arg IN
         /\ name \in gitTags => answer'.threw
         /\ (name \in gitTags /\ ~answer'.caught) =>
              answer'.error = "already exists"
         /\ answer'.caught => (answer'.threw /\ answer'.error = "GitError")
         /\ name \notin gitTags => answer'.error # "already exists"
         /\ answer'.threw => gitTags' = gitTags
         /\ ~answer'.threw =>
              (gitTags' = gitTags \cup {name} /\ answer'.error = "none")]_vars

\* createTag has thrown its 'already exists' error for a tag of the
\* repository.
C21_Witness ==
    /\ answer.op = "createTag"
    /\ answer.error = "already exists"
    /\ answer.arg \in gitTags
\* The entry the changelog is to have for a list of commits: the feat
\* commits, the fix commits and the rest, each in the order of the list,
\* and a feat or fix line without its `type(scope)!: ` prefix.
ExpectedEntry(version, log) ==
    LET l == GitLog(log, LogLimit)
        Is(t, m) == IF t = "other" THEN ParseCommit(m).type \notin {"feat", "fix"}
                    ELSE ParseCommit(m).type = t
        IsFeature(m) == Is("feat", m)
        IsFix(m) == Is("fix", m)
        IsOther(m) == Is("other", m)
        Described(ms) == [k \in DOMAIN ms |-> <<"- ", "description">>]
        Whole(ms) == [k \in DOMAIN ms |-> <<"- ">> \o Text(ms[k])]
        Section(heading, lines) ==
            IF lines = <<>> THEN <<>>
            ELSE <<<<"### ", heading>>, <<>>>> \o lines \o <<<<>>>>
    IN <<<<"## ", version>>, <<>>>>
       \o Section("Features", Described(SelectSeq(l, IsFeature)))
       \o Section("Bug Fixes", Described(SelectSeq(l, IsFix)))
       \o Section("Other Changes", Whole(SelectSeq(l, IsOther)))
       \o <<<<>>>>

\* C22: for every list of commits the changelog entry lists the feat
\* commits under Features, then the fix commits under Bug Fixes, then the
\* rest under Other Changes, each commit once and in the order of the list,
\* and every feature or fix line has lost its `type(scope)!: ` prefix.
C22_AsStated ==
    [][entry' # entry => entry' = ExpectedEntry("next", gitLog)]_vars

\* C22, for the commits that are no breaking change: the entry is the one
\* the claim describes.
C22_Unmarked ==
    [][(entry' # entry /\ \A k \in DOMAIN gitLog : ~gitLog[k].bang)
         => entry' = ExpectedEntry("next", gitLog)]_vars

\* The heading of an entry: ## [version] - date
IsEntryHeading(line) == line # <<>> /\ line[1] = "## "
\* The entry is in `new` from line p + 1 on, and the lines of `old` are
\* all there, in their order, around it.
InsertedAt(old, new, e, p) ==
    new = SubSeq(old, 1, p) \o e \o SubSeq(old, p + 1, Len(old))
\* The entry stands under the header of the file, with nothing but empty
\* lines between the two, and above every entry the file had.
UnderHeader(old, p) ==
    /\ \E h \in 1..p :
         /\ IsHeader(old[h])
         /\ \A k \in (h + 1)..p : old[k] = <<>>
    /\ \A k \in 1..p : ~IsEntryHeading(old[k])

\* C23: for every existing changelog the new entry is placed directly
\* under the top-level heading and before every entry recorded earlier,
\* and every line of the file is preserved in its order.
C23_AsStated ==
    [][(changelog' # changelog /\ changelog # <<>>) =>
         LET old == IF \E k \in DOMAIN changelog : IsHeader(changelog[k])
                    THEN changelog ELSE <<HeaderLine, <<>>>> \o changelog
         IN \E p \in 1..Len(old) :
              /\ InsertedAt(old, changelog', entry', p)
              /\ UnderHeader(old, p)]_vars

\* C23, for the files whose header is followed by an empty line: the
\* entry is placed as the claim describes.
C23_EmptyLineUnderHeader ==
    [][(changelog' # changelog /\ changelog # <<>>
        /\ \A k \in DOMAIN changelog :
              IsHeader(changelog[k]) =>
                (k < Len(changelog) /\ changelog[k + 1] = <<>>)) =>
         LET old == IF \E k \in DOMAIN changelog : IsHeader(changelog[k])
                    THEN changelog ELSE <<HeaderLine, <<>>>> \o changelog
         IN \E p \in 1..Len(old) :
              /\ InsertedAt(old, changelog', entry', p)
              /\ UnderHeader(old, p)]_vars

\* C24: in a run of the release command started with --dry-run no changes
\* are made: the manifest and the changelog are not written, no commit and
\* no tag is made, nothing is pushed, and there is no deployment and no
\* hosted release.
C24_AsStated ==
    (caller = "cli" /\ relOpts.dryRun = "true") => repo = Untouched

\* The lint step is the step of the pipeline.
Linting == AtStep("Auto-fix linting issues")

\* C25: the lint auto-fix step never ends in failure, whatever its
\* candidate commands do, and the pipeline goes on to type checking; the
\* candidates are tried in the order bun, npm, bunx, npx, and none is
\* tried after the first that has succeeded or has run and reported
\* issues.
C25_LintNeverFails ==
    [][/\ relErr'.step # "Auto-fix linting issues"
       /\ Linting' => (job'.phase # "threw" /\ relPc' = "pipeline")
       /\ (Linting' /\ job'.tried # job.tried /\ job'.tried # <<>>) =>
            LET last == job'.tried[Len(job'.tried)]
                n == Len(job'.tried)
            IN
            /\ Linting /\ job.phase = "running"
            /\ job'.tried = Append(job.tried, last)
            /\ n <= 4
            /\ \A k \in 1..(n - 1) : job'.tried[k] \notin {"ok", "issues"}
            /\ job'.phase = IF last \in {"ok", "issues"} \/ n = 4
                            THEN "done" ELSE "running"
       /\ (Linting /\ stage' # stage) =>
            /\ job.phase \in {"idle", "done"}
            /\ ReleaseSteps[stage'] = "Type checking"
            /\ job'.phase = "running"
       /\ Candidates("Auto-fix linting issues")
            = <<"bun run lint:fix", "npm run lint:fix",
                "bunx eslint . --fix", "npx eslint . --fix">>]_vars

\* The lint step has ended in success after four commands, none of which
\* was found or has run.
C25_Witness ==
    /\ Linting
    /\ job.phase = "done"
    /\ Len(job.tried) = 4
    /\ \A k \in 1..4 : job.tried[k] \in {"missing", "other"}
    /\ job.tried[4] = "other"

\* No step of the pipeline has been started.
BeforePipeline == stage = 0 /\ relPc \in {"preflight", "choose"}
\* The last step of the pipeline has finished and execute has returned.
AfterPipeline ==
    /\ stage = Len(ReleaseSteps)
    /\ job.phase \in {"idle", "done"}
    /\ relPc \in {"summary", "deployOffer"}

\* C26: every prompt of a release run is issued before the first step of
\* the pipeline starts or after the last one has finished: none is issued
\* while the step tree executes.
C26_PromptsOutsidePipeline ==
    [][asked' # asked => (BeforePipeline \/ AfterPipeline)]_vars

\* A run that has prompted for the action before the pipeline and for the
\* deployment after it.
C26_Witness ==
    /\ {"action", "deployment"} \subseteq asked
    /\ stage = Len(ReleaseSteps)
    /\ relPc = "deploying"

\* C27: in non-interactive mode the release command issues no prompt at
\* any point: the pre-flight with uncommitted changes exits with status 1
\* at once, the steps ask nothing, and the monitoring and the deployment
\* are not offered.
C27_NonInteractive ==
    [][Truthy(relOpts'.nonInteractive) =>
         /\ asked' = {}
         /\ (relPc = "preflight" /\ hasChanges' = "true") =>
               (relPc' = "exited" /\ exitCode' = 1)
         /\ relPc \in {"summary", "deployOffer"} =>
               (relPc' \in {"deployOffer", "done"} /\ started' = started)]_vars

\* A non-interactive run has passed the pipeline and both offers.
C27_Witness ==
    /\ relOpts.nonInteractive = "true"
    /\ relOpts.dryRun = "undefined"
    /\ stage = Len(ReleaseSteps)
    /\ relPc = "done"
    /\ asked = {}

\* A task that has been invoked and has ended.
Settled(i) == st["main"][i] \in {"completed", "failed"}
\* Group g of the main run runs its subtasks concurrently.
ConcurrentGroup(g) ==
    /\ g \in Nodes("main")
    /\ IsGroup("main", g)
    /\ st["main"][g] = "running"
    /\ conc["main"][g] = "true"

SequentialRun == ~opts["main"].concurrent /\ ~hist["main"].conc
\* The steps that have written field f: the leaf steps whose task has
\* been invoked and has ended.
Writers(f) == {i \in Leaves("main") : FieldOf(i) = f /\ Settled(i)}
\* The last of a set of steps in document order, 0 for none.
LastOf(S) == IF S = {} THEN 0 ELSE CHOOSE i \in S : \A j \in S : j <= i

\* C29: all steps, nested subtasks included, share one context object: a
\* field changes only by the write of a task that runs, so that a write
\* stays visible to every later step; in a run with no concurrent list and
\* no failure every field holds the write of the last step that wrote it;
\* and the context execute returns is that object, with all writes
\* applied.
C29_SharedContext ==
    [][/\ \A f \in DOMAIN ctx :
            ctx'[f] # ctx[f] =>
               /\ ctx'[f] \in Leaves("main")
               /\ FieldOf(ctx'[f]) = f
               /\ st["main"][ctx'[f]] = "running"
               /\ pc["main"] = "running"
       /\ \A i \in Leaves("main") :
            (st["main"][i] = "running" /\ st'["main"][i] \in {"completed", "failed"})
               => ctx'[FieldOf(i)] = i
       /\ (SequentialRun' /\ ~hist'["main"].threw) =>
            \A f \in DOMAIN ctx : ctx'[f] = LastOf(Writers(f)')
       /\ pc'["main"] = "returned" => ctx' = ctx]_vars

\* Execute has returned from a run with no concurrent list in which a
\* subtask of a group has overwritten the field of an earlier step.
C29_Witness ==
    /\ pc["main"] = "returned"
    /\ SequentialRun
    /\ \E i, j \in Leaves("main") :
          /\ i < j
          /\ FieldOf(i) = FieldOf(j)
          /\ Settled(i) /\ Settled(j)
          /\ parent["main"][j] # 0
          /\ ctx[FieldOf(j)] = j

\* The steps that run while group g runs are the subtasks of g alone.
RunsAlone(g) ==
    /\ ~opts["main"].concurrent
    /\ \A a \in Anc("main", g) : a # 0 => conc["main"][a] # "true"
    /\ \A c \in Children("main", g) : ~IsGroup("main", c)

\* C30: when the children of a concurrent group write fields that differ
\* from one child to the other, the context after the group is the same
\* for every interleaving: every field holds the write of the one child
\* that wrote it; and when two steps that run concurrently write the same
\* field, the field holds the write that happened last.
C30_ConcurrentWrites ==
    [][/\ \A g \in Nodes("main") :
            (/\ ConcurrentGroup(g)
             /\ RunsAlone(g)
             /\ st'["main"][g] = "completed"
             /\ \A c, d \in Children("main", g) :
                   c # d => FieldOf(c) # FieldOf(d)) =>
               \A c \in Children("main", g) :
                  Settled(c) => ctx'[FieldOf(c)] = c
       /\ \A i, j \in Leaves("main") :
            (/\ i # j
             /\ FieldOf(i) = FieldOf(j)
             /\ st["main"][i] = "running"
             /\ st["main"][j] = "running"
             /\ st'["main"][i] # "running") =>
               /\ ctx'[FieldOf(i)] = i
               /\ st'["main"][j] = "running"]_vars

\* Two steps that ran concurrently have written the same field, and the
\* field holds the write of the one that is first in the document.
C30_Witness ==
    \E i, j \in Leaves("main") :
       /\ i < j
       /\ FieldOf(i) = FieldOf(j)
       /\ st["main"][i] = "completed"
       /\ st["main"][j] = "completed"
       /\ opts["main"].concurrent
       /\ ctx[FieldOf(i)] = i

\* The test step is the step of the pipeline.
Testing == AtStep("Running tests")
\* A command of the step has been tried.
Tried == job'.tried # job.tried /\ job'.tried # <<>>
\* Some command that was tried has reported that there are no tests, and
\* none has reported a test failure.
NoTestsNoFailure(tried) ==
    /\ \E k \in DOMAIN tried : tried[k] = "notests"
    /\ \A k \in DOMAIN tried : tried[k] # "fail"

\* C31: in 'Running tests', when some command that was tried has reported
\* that there are no tests and none has reported a test failure, the step
\* ends in success, whichever command has reported it; a test failure a
\* command reports stops the chain and fails the step.
C31_AsStated ==
    [][(Testing' /\ Tried) =>
         LET tried == job'.tried
             last == tried[Len(tried)]
         IN
         /\ \A k \in 1..(Len(tried) - 1) : tried[k] # "fail"
         /\ last = "fail" => job'.phase = "threw"
         /\ NoTestsNoFailure(tried) => job'.phase # "threw"]_vars

\* C31, by the report of the last command: the step ends in success when
\* a command has passed, and when the last of the six commands has
\* reported that there are no tests; a test failure stops the chain.
C31_LastReportDecides ==
    [][(Testing' /\ Tried) =>
         LET tried == job'.tried
             last == tried[Len(tried)]
             full == Len(tried) = Len(Candidates("Running tests"))
         IN
         /\ \A k \in 1..(Len(tried) - 1) : tried[k] \notin {"ok", "fail"}
         /\ last = "fail" => job'.phase = "threw"
         /\ last = "ok" => job'.phase = "done"
         /\ (last \notin {"ok", "fail"} /\ ~full) => job'.phase = "running"
         /\ (last = "notests" /\ full) => job'.phase = "done"
         /\ (last = "other" /\ full) => job'.phase = "threw"]_vars

\* The type checking step is the step of the pipeline.
TypeChecking == AtStep("Type checking")

\* C32: in type checking, a command that runs and reports type errors
\* fails the step; only a missing command lets the step go on to the next
\* candidate of bun run typecheck, npm run typecheck, bunx tsc --noEmit.
C32_AsStated ==
    [][(TypeChecking' /\ Tried) =>
         LET tried == job'.tried
             last == tried[Len(tried)]
         IN
         /\ last = "errors" => job'.phase = "threw"
         /\ \A k \in 1..(Len(tried) - 1) : tried[k] = "missing"]_vars

\* C32, for any failure: the step goes on to the next candidate after
\* every command that has failed, and fails when the third has failed.
C32_FallsThrough ==
    [][(TypeChecking' /\ Tried) =>
         LET tried == job'.tried
             last == tried[Len(tried)]
         IN
         /\ Len(tried) <= 3
         /\ \A k \in 1..(Len(tried) - 1) : tried[k] \in {"missing", "errors"}
         /\ job'.phase = IF last = "ok" THEN "done"
                         ELSE IF Len(tried) = 3 THEN "threw" ELSE "running"]_vars

\* C33: in a run with skipLint set the task of the type checking step is
\* not invoked.
C33_AsStated ==
    Truthy(relOpts.skipLint) => ~(TypeChecking /\ job.phase # "idle")

\* C39: on every path out of 'Running tests' the quality snapshot agrees
\* with the outcome: testsPassed is true when the step ends in success and
\* false when it fails, and lintPassed keeps its value, true when it was
\* not set.
C39_TestsSnapshot ==
    [][/\ (Testing' /\ job.phase = "running" /\ job'.phase \in {"done", "threw"}) =>
            /\ relCtx'.testsPassed =
                  IF job'.phase = "done" THEN "true" ELSE "false"
            /\ relCtx'.lintPassed =
                  IF relCtx.lintPassed = "unset" THEN "true"
                  ELSE relCtx.lintPassed
       /\ (Testing' /\ job'.phase = "running") =>
            relCtx'.testsPassed = "unset"
       /\ relErr'.step = "Running tests" => relCtx'.testsPassed = "false"]_vars

\* The test step has failed at a test failure, with the snapshot taken.
C39_Witness ==
    /\ Testing
    /\ job.phase = "threw"
    /\ job.tried[Len(job.tried)] = "fail"
    /\ relCtx.testsPassed = "false"
    /\ relCtx.lintPassed = "true"

\* The steps the claim names: the substeps of the release execution, the
\* build and the release publication.
ContextReaders ==
    {t \in {ReleaseSteps[k] : k \in DOMAIN ReleaseSteps} :
        \/ ReleaseStage(t) = "Release execution"
        \/ t \in {"Build project", "Create GitHub release"}}

\* C34: whenever a substep of the release execution, the build or the
\* release publication starts, the repository analysis and the version
\* calculation have both ended in success: the context holds the git
\* snapshot, the commits and a valid next version that is not empty.
C34_ContextPopulated ==
    \A t \in ContextReaders :
       (AtStep(t) /\ job.phase # "idle") =>
          /\ relCtx.git
          /\ relCtx.current.kind \in {"release", "prerelease"}
          /\ relCtx.next.kind = "release"
          /\ relCtx.bump \in {"patch", "minor", "major"}
          /\ \A u \in {"Git repository analysis", "Version calculation"} :
                /\ \E k \in DOMAIN started : started[k] = u
                /\ relErr.step # u
                /\ PositionIn(ReleaseSteps, u) < stage

\* The release publication runs, with the next version calculated from a
\* prerelease version.
C34_Witness ==
    /\ AtStep("Create GitHub release")
    /\ job.phase = "running"
    /\ relCtx.git
    /\ relCtx.current.kind = "prerelease"
    /\ relCtx.next.kind = "release"

\* The keyword tests of analyzeError in their order, and the category of
\* each.
KeywordOrder == <<"lint", "type", "build", "auth", "dep">>
Categories ==
    <<"linting", "typescript", "build", "authentication", "dependency">>
\* The first test a text passes, 0 for none.
FirstMatch(m) ==
    LET hits == {k \in DOMAIN KeywordOrder : KeywordOrder[k] \in m}
    IN IF hits = {} THEN 0 ELSE CHOOSE k \in hits : \A j \in hits : k <= j

\* C35: analyzeError gives every error one category, that of the first
\* keyword test its message or stack passes in the order linting,
\* typescript, build, authentication, dependency, and unknown when it
\* passes none; the analysis is fixable for linting, build and dependency
\* and for no other category.
C35_FirstMatch ==
    analysis # NoAnalysis =>
       LET k == FirstMatch(recArg.text) IN
       /\ analysis.type = IF k = 0 THEN "unknown" ELSE Categories[k]
       /\ analysis.fixable <=>
             analysis.type \in {"linting", "build", "dependency"}

\* An error whose text passes the tests for typescript, build and
\* dependency has been analyzed as a typescript error.
C35_Witness ==
    /\ recArg.text = {"type", "build", "dep"}
    /\ analysis = [type |-> "typescript", fixable |-> FALSE]

\* The categories whose recovery is advice alone.
Advisory == {"typescript", "authentication", "unknown"}

\* C36: for an error analyzed as typescript, authentication or unknown
\* the recovery run is the analysis step, one advisory step and the
\* verification step, and none of them runs a command; commands are run in
\* the recovery of linting, build and dependency errors only.
C36_AdvisoryOnly ==
    [][/\ (analysis'.type \in Advisory /\ pc'["recovery"] # "idle") =>
            /\ Len(title'["recovery"]) = 3
            /\ title'["recovery"][1] = "Error Analysis"
            /\ title'["recovery"][2] \in
                  {"TypeScript Error Advisory", "Authentication Error Advisory",
                   "Unknown Error Advisory"}
            /\ title'["recovery"][3] = "Recovery Verification"
            /\ (pc["recovery"] = "running" \/ cmds' # cmds) => cmds' = <<>>
       /\ (cmds' # <<>> /\ cmds' # cmds) =>
            /\ analysis.type \in {"linting", "build", "dependency"}
            /\ pc["recovery"] = "running"]_vars

\* The recovery of an authentication error has returned.
C36_Witness ==
    /\ analysis.type = "authentication"
    /\ recPc = "returned"
    /\ \A i \in Nodes("recovery") : st["recovery"][i] = "completed"
    /\ cmds = <<>>

\* C40: the engine run that executeRecovery starts never calls
\* executeRecovery itself: it runs with exitOnError false, its list does
\* not reject and it does not throw, whatever the commands of its steps
\* do; a failing run of execute calls executeRecovery once, and execute
\* ends by throwing.
C40_NoRecursion ==
    /\ recCalls <= 1
    /\ pc["recovery"] \notin {"recovering", "threw"}
    /\ lst["recovery"][0] # "rejected"
    /\ pc["recovery"] # "idle" =>
          (~opts["recovery"].exitOnError /\ ~opts["recovery"].concurrent)
    /\ pc["main"] = "recovering" => recCalls = 1
    /\ (pc["main"] = "threw" /\ recCalls = 1) =>
          recPc \in {"returned", "reported"}

\* Execute has thrown after a recovery run in which a command has failed.
C40_Witness ==
    /\ pc["main"] = "threw"
    /\ recCalls = 1
    /\ pc["recovery"] = "returned"
    /\ \E k \in DOMAIN cmds : ~cmds[k].ok

\* C37, as stated: every poll loop of the monitoring ends after a bounded
\* number of polls: the search for the publishing workflow has polled at
\* most 30 times and the watch of the running workflow at most 60 times.
C37_AsStated ==
    /\ watch.polls <= SearchMaxAttempts
    /\ watch.watchPolls <= WatchMaxAttempts

\* The loops of the search, and the watch of monitorRunningWorkflow, are
\* bounded as C37 says, and they have ended when the bound is reached.
C37_BoundedLoops ==
    /\ watch.polls <= SearchMaxAttempts
    /\ watch.impl = "listr" => watch.watchPolls <= WatchMaxAttempts
    /\ (watch.polls = SearchMaxAttempts /\ watch.step = "find") =>
          ~ENABLED FindPoll
    /\ (watch.impl = "listr" /\ watch.watchPolls = WatchMaxAttempts
          /\ watch.step = "watch") => ~ENABLED WatchPoll

\* C38, as stated: 'Monitor workflow execution' runs only when a
\* publishing workflow was found, and 'Verify npm package availability'
\* is skipped when none was found or when the monitored workflow has
\* concluded with anything other than success (a conclusion that gh has
\* reported; the run that was found completed carries none).
C38_AsStated ==
    watch.impl = "listr" =>
       /\ watch.monitor = "ran" => watch.publishingWorkflow # NoRun
       /\ (watch.publishingWorkflow = NoRun
             \/ watch.concluded \notin {"none", "undefined", "success"}) =>
            watch.verify # "ran"

\* The half of C38 that holds: the monitoring step runs only for a
\* workflow that was found, and without one the verification is skipped.
C38_FoundOnly ==
    watch.impl = "listr" =>
       /\ watch.monitor = "ran" => watch.publishingWorkflow # NoRun
       /\ watch.publishingWorkflow = NoRun => watch.verify # "ran"
       /\ (watch.step = "done" /\ watch.publishingWorkflow = NoRun) =>
            (watch.monitor = "skipped" /\ watch.verify = "skipped")

====
